---- MODULE Spec2Model ----
(***************************************************************************)
(* Static source-analysis layer of the pull-request reviewer:              *)
(*   - PullRequestProcessor.analyse_diff   (diff attribution)              *)
(*   - CodeContextProvider.build_context   (entity extraction)             *)
(*   - CodeContextProvider.get_called_pipelines (pipeline configuration)   *)
(* Each operation is one action; the inputs of an operation are drawn by   *)
(* the initial predicate of the specification that exercises it.           *)
(***************************************************************************)
EXTENDS Integers, Sequences, FiniteSets, TLC

VARIABLES
    pc,                 \* "start" before the operation under study ran, "done" after
    functions_in_file,  \* analyse_diff: the list of Function objects of the file
    fresh_functions,    \* a second list of the same file, from another get_functions_in_file
    added_lines,        \* analyse_diff: the added Line objects of the diff
    removed_lines,      \* analyse_diff: the removed Line objects of the diff
    modified_func_dict, \* PullRequestProcessor.modified_func_dict: path -> set of Function
    parent,             \* syntax tree: parent[k] is the parent of node k, 0 the root_node
    label,              \* syntax tree: label[k] is the type and the fields of node k
    codebase_dict,      \* CodeContextProvider.codebase_dict: path -> list of Function
    file_exists,        \* whether open() finds the source file
    dep,                \* get_dep_func: the dependency name looked for
    dep_func,           \* what get_dep_func returned
    file_docstring,     \* what get_file_docstring returned
    doc_parent,         \* configuration document: parent[k] of value k, 0 for the document
    doc_label,          \* configuration document: type, key and scalar value of value k
    pipelines_called,   \* what get_called_pipelines returned
    all_pipelines,      \* what get_defined_pipelines returned: pipeline name -> set of nodes
    doc_readable,       \* FALSE when opening or loading the configuration file raises
    node_files,         \* find_unused_nodes: the node configuration files, in listing order
    all_nodes,          \* find_unused_nodes: node name -> definition, over all node files
    unused_pipelines,   \* find_unused_pipelines: defined and never called
    undefined_pipelines, \* find_unused_pipelines: called and never defined
    nodes_called,       \* find_unused_nodes: the nodes of the called pipelines
    unused_nodes_name,  \* find_unused_nodes: defined nodes no called pipeline has
    undefined_nodes_name, \* find_unused_nodes: called nodes no file defines
    merged_func,        \* mergeFunctions: the Function merged into (self)
    tested_func,        \* mergeFunctions: the Function merged in (func)
    changed_files,      \* get_modified_functions: the files of diff_dict, in its order
    functions_of,       \* get_modified_functions: functions_in_file of each changed file
    imp,                \* _get_dep_filepath: the import statement
    local_dir_name,     \* _get_dep_filepath: the segments of the local directory
    dep_filepath,       \* what _get_dep_filepath returned: the tokens of the path
    self_func,          \* Function.__eq__: the Function compared (self)
    compared,           \* Function.__eq__: what it is compared with (other), with its type
    eq_result,          \* what self == other gave
    contained,          \* what `other in {self}` gave
    code_lines,         \* _extract_code: the lines of the file (code.splitlines())
    node_rows,          \* _extract_code: start_point[0] and end_point[0] of the node
    snippet,            \* what _extract_code returned
    diff_tasks,         \* get_modified_functions: the analyse_diff tasks gathered and not yet run
    test_functions,     \* review_tested_functions: the Function objects of the test file, in file order
    modified_func_list, \* review_tested_functions: the names of the modified functions, in order
    reviewed,           \* each review task: the modified function and the test code it was given
    dependencies_names, \* get_relevant_dep: tested_func.dependencies, in list order
    test_imports,       \* get_relevant_dep: tested_func.imports, each with the file it leads to
    relevant_dep,       \* what get_relevant_dep returned
    review_queue,       \* webhook_receiver.review_queue: the requests put and not yet taken
    workers,            \* the process_review_queue tasks: where each stands and the request it holds
    accepted,           \* how many requests trigger_review has put on the queue
    marked_done,        \* the requests a worker has called task_done for
    runs,               \* build_code_review_graph: where the run on each worker stands, and its pull request
    directories,        \* the working directories: absent, or the run whose files they hold
    review_list,        \* join_reviews: the lists passed, each a header and its review strings
    current_review_list \* what join_reviews returned: the chunks

diffVars == <<functions_in_file, fresh_functions, added_lines, removed_lines, modified_func_dict>>
treeVars == <<parent, label, codebase_dict, file_exists, dep, dep_func, file_docstring>>
docVars == <<doc_parent, doc_label, doc_readable, pipelines_called, all_pipelines>>
deadVars == <<node_files, all_nodes, unused_pipelines, undefined_pipelines,
              nodes_called, unused_nodes_name, undefined_nodes_name>>
mergeVars == <<merged_func, tested_func>>
runVars == <<changed_files, functions_of>>
pathVars == <<imp, local_dir_name, dep_filepath>>
eqVars == <<self_func, compared, eq_result, contained>>
sliceVars == <<code_lines, node_rows, snippet>>
gatherVars == <<diff_tasks>>
reviewVars == <<test_functions, modified_func_list, reviewed>>
depVars == <<dependencies_names, test_imports, relevant_dep>>
queueVars == <<review_queue, workers, accepted, marked_done>>
dirVars == <<runs, directories>>
joinVars == <<review_list, current_review_list>>
vars == <<pc, diffVars, treeVars, docVars, deadVars, mergeVars, runVars, pathVars, eqVars, sliceVars, gatherVars, reviewVars, depVars, queueVars, dirVars, joinVars>>

\* what an operation on one group of variables leaves alone
exceptDiff == <<treeVars, docVars, deadVars, mergeVars, runVars, pathVars, eqVars, sliceVars, gatherVars, reviewVars, depVars, queueVars, dirVars, joinVars>>
exceptTree == <<diffVars, docVars, deadVars, mergeVars, runVars, pathVars, eqVars, sliceVars, gatherVars, reviewVars, depVars, queueVars, dirVars, joinVars>>
exceptDoc == <<diffVars, treeVars, deadVars, mergeVars, runVars, pathVars, eqVars, sliceVars, gatherVars, reviewVars, depVars, queueVars, dirVars, joinVars>>
exceptDead == <<diffVars, treeVars, mergeVars, runVars, pathVars, eqVars, sliceVars, gatherVars, reviewVars, depVars, queueVars, dirVars, joinVars>>
exceptMerge == <<diffVars, treeVars, docVars, deadVars, runVars, pathVars, eqVars, sliceVars, gatherVars, reviewVars, depVars, queueVars, dirVars, joinVars>>
exceptRun == <<treeVars, docVars, deadVars, mergeVars, pathVars, eqVars, sliceVars, gatherVars, reviewVars, depVars, queueVars, dirVars, joinVars>>
exceptPath == <<diffVars, treeVars, docVars, deadVars, mergeVars, runVars, eqVars, sliceVars, gatherVars, reviewVars, depVars, queueVars, dirVars, joinVars>>
exceptEq == <<diffVars, treeVars, docVars, deadVars, mergeVars, runVars, pathVars, sliceVars, gatherVars, reviewVars, depVars, queueVars, dirVars, joinVars>>
exceptSlice == <<diffVars, treeVars, docVars, deadVars, mergeVars, runVars, pathVars, eqVars, gatherVars, reviewVars, depVars, queueVars, dirVars, joinVars>>
exceptGather == <<treeVars, docVars, deadVars, mergeVars, pathVars, eqVars, sliceVars, reviewVars, depVars, queueVars, dirVars, joinVars>>
exceptReview == <<diffVars, treeVars, docVars, deadVars, mergeVars, runVars, pathVars, eqVars, sliceVars, gatherVars, depVars, queueVars, dirVars, joinVars>>
exceptDep == <<diffVars, treeVars, docVars, deadVars, mergeVars, runVars, pathVars, eqVars, sliceVars, gatherVars, reviewVars, queueVars, dirVars, joinVars>>
exceptQueue == <<diffVars, treeVars, docVars, deadVars, mergeVars, runVars, pathVars, eqVars, sliceVars, gatherVars, reviewVars, depVars, dirVars, joinVars>>
exceptDir == <<diffVars, treeVars, docVars, deadVars, mergeVars, runVars, pathVars, eqVars, sliceVars, gatherVars, reviewVars, depVars, queueVars, joinVars>>
exceptJoin == <<diffVars, treeVars, docVars, deadVars, mergeVars, runVars, pathVars, eqVars, sliceVars, gatherVars, reviewVars, depVars, queueVars, dirVars>>

(***************************************************************************)
(* Bounds                                                                  *)
(***************************************************************************)
MaxLine == 2    \* source lines are numbered 1..MaxLine
MaxFuncs == 2   \* functions in one file
MaxDiff == 1    \* Line objects in one of the two lists of a diff
MaxNodes == 4   \* nodes of a syntax tree below its root_node
MaxParams == 3  \* parameters in one signature
MaxDocNodes == 5 \* values (mappings, lists, scalars) in one configuration document

\* None where a string is optional, NoLine where a Line is optional
None == "None"
NoLine == [none |-> TRUE]
NoDocstring == [none |-> TRUE]
NoFunction == [none |-> TRUE]
NoText == [none |-> TRUE]

\* The injective sequences over S of length at most n (a list built from a set).
RECURSIVE InjSeqs(_, _)
InjSeqs(S, n) ==
    IF n = 0 THEN {<<>>}
    ELSE LET shorter == InjSeqs(S, n - 1)
             full == {t \in shorter : Len(t) = n - 1}
         IN  shorter \cup
             UNION {{Append(s, x) : x \in S \ {s[k] : k \in 1..Len(s)}} : s \in full}

(***************************************************************************)
(* Line: (line_num, text); equality and hash by line_num only.             *)
(***************************************************************************)
LineTexts == {"x"}

Line(line_num, text) == [line_num |-> line_num, text |-> text]

Lines == {Line(n, t) : n \in 1..MaxLine, t \in LineTexts}

\* Line.__eq__
LineEq(a, b) == a.line_num = b.line_num

\* get_diff builds each list as list(set(Line)): no two entries share a number
DiffLists(max) ==
    {s \in InjSeqs(Lines, max) : \A i, j \in 1..Len(s) : i # j => ~LineEq(s[i], s[j])}

(***************************************************************************)
(* Function (function.py)                                                  *)
(***************************************************************************)
FuncNames == {"f", "g"}

\* name and code of the functions of a file: two may share both, or the name only
FuncIdentities == {<<"f", "a">>, <<"f", "b">>, <<"g", "a">>}

\* Function.__init__
Function(func_name, func_code, class_name, dependencies, imports, docstring, params, start_line, end_line) ==
    [func_name |-> func_name, func_code |-> func_code,
     class_name |-> class_name, is_method |-> (class_name # None),
     dependencies |-> dependencies, imports |-> imports, params |-> params,
     docstring |-> docstring,
     start_line |-> start_line, end_line |-> end_line,
     added_lines |-> <<>>, removed_lines |-> <<>>]

\* Function.__hash__
FunctionHash(f) == f.func_name

\* Function.__eq__ against another Function
FunctionEq(f, other) == f.func_name = other.func_name /\ f.func_code = other.func_code

\* addInformation that skips a line the list already holds
addInformationOnce(f, added_line, removed_line) ==
    LET f1 == IF added_line # NoLine /\ \A k \in 1..Len(f.added_lines) : f.added_lines[k] # added_line
              THEN [f EXCEPT !.added_lines = Append(@, added_line)]
              ELSE f
    IN  IF removed_line # NoLine /\ \A k \in 1..Len(f.removed_lines) : f.removed_lines[k] # removed_line
        THEN [f1 EXCEPT !.removed_lines = Append(@, removed_line)]
        ELSE f1

\* Function.addInformation
addInformation(f, added_line, removed_line) ==
    LET f1 == IF added_line # NoLine
              THEN [f EXCEPT !.added_lines = Append(@, added_line)]
              ELSE f
    IN  IF removed_line # NoLine
        THEN [f1 EXCEPT !.removed_lines = Append(@, removed_line)]
        ELSE f1

\* set.add on a set of Function objects (held as indices into the list):
\* a member that is the same object, or has the same hash and compares equal,
\* keeps the new object out.
SetAdd(S, funcs, i) ==
    IF \E j \in S : j = i \/ (FunctionHash(funcs[j]) = FunctionHash(funcs[i])
                              /\ FunctionEq(funcs[j], funcs[i]))
    THEN S
    ELSE S \cup {i}

(***************************************************************************)
(* PullRequestProcessor.analyse_diff                                       *)
(***************************************************************************)
line_nums(lines) == {lines[k].line_num : k \in 1..Len(lines)}

\* the inner loop without its break: the last containing function gets the line
RECURSIVE ScanFunctionsNoBreak(_, _, _)
ScanFunctionsNoBreak(funcs, line, i) ==
    IF i > Len(funcs) THEN 0
    ELSE LET later == ScanFunctionsNoBreak(funcs, line, i + 1)
         IN  IF later # 0 THEN later
             ELSE IF funcs[i].start_line <= line /\ line <= funcs[i].end_line THEN i
             ELSE 0

\* for function in functions_in_file: if start_line <= line <= end_line: ... break
\* the index of the function the inner loop stops at, 0 when it runs to the end
RECURSIVE ScanFunctions(_, _, _)
ScanFunctions(funcs, line, i) ==
    IF i > Len(funcs) THEN 0
    ELSE IF funcs[i].start_line <= line /\ line <= funcs[i].end_line THEN i
    ELSE ScanFunctions(funcs, line, i + 1)

\* for added_line in added_lines: if added_line.line_num == line: addInformation(added_line=...)
RECURSIVE RecordAdded(_, _, _, _)
RecordAdded(f, lines, line, k) ==
    IF k > Len(lines) THEN f
    ELSE RecordAdded(IF lines[k].line_num = line
                     THEN addInformation(f, lines[k], NoLine) ELSE f,
                     lines, line, k + 1)

\* for removed_line in removed_lines: if removed_line.line_num == line: addInformation(removed_line=...)
RECURSIVE RecordRemoved(_, _, _, _)
RecordRemoved(f, lines, line, k) ==
    IF k > Len(lines) THEN f
    ELSE RecordRemoved(IF lines[k].line_num = line
                       THEN addInformation(f, NoLine, lines[k]) ELSE f,
                       lines, line, k + 1)

\* the body of the inner loop for the function the scan stopped at
AttributeLine(f, added, removed, line) ==
    IF line \in line_nums(added) THEN RecordAdded(f, added, line, 1)
    ELSE IF line \in line_nums(removed) THEN RecordRemoved(f, removed, line, 1)
    ELSE f

\* the outer loop over modified_lines, in the iteration order `order`;
\* st = [funcs, modified_functions]
RECURSIVE AnalyseLoop(_, _, _, _, _)
AnalyseLoop(st, added, removed, order, n) ==
    IF n > Len(order) THEN st
    ELSE LET line == order[n]
             i == ScanFunctions(st.funcs, line, 1)
             next == IF i = 0 THEN st
                     ELSE [funcs |-> [st.funcs EXCEPT ![i] =
                                         AttributeLine(@, added, removed, line)],
                           modified_functions |->
                               SetAdd(st.modified_functions, st.funcs, i)]
         IN  AnalyseLoop(next, added, removed, order, n + 1)

\* modified_lines = list(set(added_line_num + removed_line_num)): the distinct
\* changed line numbers, in an iteration order the set decides
ModifiedLineOrders(added, removed) ==
    LET S == line_nums(added) \cup line_nums(removed)
    IN  {s \in InjSeqs(S, Cardinality(S)) : Len(s) = Cardinality(S)}

Paths == {"a.py"}

\* the syntax-tree variables of a specification that parses no file
IdleTree ==
    /\ parent = <<>> /\ label = <<>> /\ codebase_dict = <<>>
    /\ file_exists = TRUE /\ dep = None /\ dep_func = NoFunction /\ file_docstring = NoDocstring

\* the configuration variables of a specification that reads no configuration
IdleDoc ==
    /\ doc_parent = <<>> /\ doc_label = <<>> /\ doc_readable = TRUE
    /\ pipelines_called = {} /\ all_pipelines = <<>>

\* the dead-code variables of a specification that runs no dead-code review
IdleDead ==
    /\ node_files = <<>> /\ all_nodes = <<>>
    /\ unused_pipelines = {} /\ undefined_pipelines = {}
    /\ nodes_called = {} /\ unused_nodes_name = {} /\ undefined_nodes_name = {}

\* the merge variables of a specification that merges no test cases
IdleMerge == merged_func = NoFunction /\ tested_func = NoFunction

\* the variables of a specification that does not run get_modified_functions
IdleRun == changed_files = <<>> /\ functions_of = <<>>

\* the variables of a specification that resolves no import
IdlePath == imp = None /\ local_dir_name = <<>> /\ dep_filepath = <<>>

\* the variables of a specification that compares no Functions
IdleEq == self_func = NoFunction /\ compared = None /\ eq_result = None /\ contained = FALSE

\* the variables of a specification that extracts no code by rows
IdleSlice == code_lines = <<>> /\ node_rows = <<>> /\ snippet = <<>>

\* the variables of a specification that gathers no analyse_diff tasks
IdleGather == diff_tasks = {}

\* the variables of a specification that reviews no test cases
IdleReview == test_functions = <<>> /\ modified_func_list = <<>> /\ reviewed = <<>>

\* the variables of a specification that resolves no dependencies
IdleDep == dependencies_names = <<>> /\ test_imports = <<>> /\ relevant_dep = {}

\* the variables of a specification that runs no webhook receiver
IdleQueue == review_queue = <<>> /\ workers = <<>> /\ accepted = 0 /\ marked_done = {}

\* the variables of a specification that runs no review
IdleDir == runs = <<>> /\ directories = <<>>

\* the variables of a specification that joins no reviews
IdleJoin == review_list = <<>> /\ current_review_list = <<>>

OnlyDiff == IdleTree /\ IdleDoc /\ IdleDead /\ IdleMerge /\ IdleRun /\ IdlePath /\ IdleEq /\ IdleSlice /\ IdleGather /\ IdleReview /\ IdleDep /\ IdleQueue /\ IdleDir /\ IdleJoin

analyse_diff(path) ==
    /\ pc = "start"
    /\ \E order \in ModifiedLineOrders(added_lines, removed_lines) :
          LET st == AnalyseLoop([funcs |-> functions_in_file, modified_functions |-> {}],
                                added_lines, removed_lines, order, 1)
          IN  /\ functions_in_file' = st.funcs
              /\ modified_func_dict' = (path :> st.modified_functions) @@ modified_func_dict
    /\ pc' = "done"
    /\ UNCHANGED <<fresh_functions, added_lines, removed_lines, exceptDiff>>

\* Function lists as build_context hands them over: document order, so start
\* lines never decrease along the list.
Spans == {sp \in (1..MaxLine) \X (1..MaxLine) : sp[1] <= sp[2]}

FunctionObjects ==
    {Function(id[1], id[2], None, {}, <<>>, NoDocstring, <<>>, sp[1], sp[2]) :
        id \in FuncIdentities, sp \in Spans}

Ordered(funcs) == \A i, j \in 1..Len(funcs) : i < j => funcs[i].start_line <= funcs[j].start_line

InitDiff ==
    /\ pc = "start"
    /\ \E n \in 0..MaxFuncs : \E funcs \in [1..n -> FunctionObjects] :
          Ordered(funcs) /\ functions_in_file = funcs /\ fresh_functions = funcs
    /\ added_lines \in DiffLists(MaxDiff)
    /\ removed_lines \in DiffLists(MaxDiff)
    /\ modified_func_dict = <<>>
    /\ OnlyDiff

NextDiff == \E path \in Paths : analyse_diff(path)

SpecDiff == InitDiff /\ [][NextDiff]_vars

(***************************************************************************)
(* Properties of analyse_diff (checked under SpecDiff)                     *)
(***************************************************************************)
Contains(f, L) == f.start_line <= L /\ L <= f.end_line

RecordedNums(f) == line_nums(f.added_lines) \cup line_nums(f.removed_lines)

ChangedNums == line_nums(added_lines) \cup line_nums(removed_lines)

\* the first function of the list, in extraction order, whose span contains L
IsFirstContaining(i, L) ==
    /\ Contains(functions_in_file[i], L)
    /\ \A j \in 1..(i - 1) : ~Contains(functions_in_file[j], L)

\* how many entries of the list `lines` are equal to the Line x
Count(lines, x) == Cardinality({k \in 1..Len(lines) : lines[k] = x})

\* C1: every changed line number recorded on a function is recorded on the
\* first function in extraction order whose inclusive span contains it, and
\* on no other function; a changed line inside no span is recorded nowhere.
C1_FirstMatchOnly ==
    pc = "done" =>
        \A i \in 1..Len(functions_in_file) :
            \A L \in RecordedNums(functions_in_file[i]) :
                /\ L \in ChangedNums
                /\ IsFirstContaining(i, L)
                /\ \A j \in 1..Len(functions_in_file) :
                       j # i => L \notin RecordedNums(functions_in_file[j])

\* C1 witness: a changed line lies in two overlapping spans and went to the
\* earlier function, and another changed line lies in no span at all.
C1_Witness ==
    /\ pc = "done"
    /\ \E L \in ChangedNums : \E i, j \in 1..Len(functions_in_file) :
          /\ i < j
          /\ Contains(functions_in_file[i], L) /\ Contains(functions_in_file[j], L)
          /\ L \in RecordedNums(functions_in_file[i])
    /\ \E L \in ChangedNums :
          \A i \in 1..Len(functions_in_file) : ~Contains(functions_in_file[i], L)

\* C2: for every changed line number L inside some span, the first containing
\* function holds every added Line numbered L in added_lines and every removed
\* Line numbered L in removed_lines, also when L occurs in both lists.
C2_AllLinesRecorded ==
    pc = "done" =>
        \A L \in ChangedNums : \A i \in 1..Len(functions_in_file) :
            IsFirstContaining(i, L) =>
                /\ \A k \in 1..Len(added_lines) :
                       added_lines[k].line_num = L =>
                           Count(functions_in_file[i].added_lines, added_lines[k]) >= 1
                /\ \A k \in 1..Len(removed_lines) :
                       removed_lines[k].line_num = L =>
                           Count(functions_in_file[i].removed_lines, removed_lines[k]) >= 1

\* build_context never emits two functions with overlapping spans
SpansDisjoint ==
    \A i, j \in 1..Len(functions_in_file) :
        i < j => functions_in_file[i].end_line < functions_in_file[j].start_line

\* C3: the set stored under the path holds every function object that received
\* at least one added or removed line, also when two distinct functions have
\* the same name and the same code.
C3_EveryModifiedFunctionStored ==
    (pc = "done" /\ SpansDisjoint) =>
        \A path \in DOMAIN modified_func_dict :
            \A i \in 1..Len(functions_in_file) :
                RecordedNums(functions_in_file[i]) # {} => i \in modified_func_dict[path]

(***************************************************************************)
(* Syntax tree of one source file (tree-sitter).  Nodes are numbered in    *)
(* document pre-order 1..n, node 0 is root_node; the children of a node    *)
(* are the nodes naming it as parent, in ascending order.  A definition's  *)
(* name and parameters children are fields of its label, and its block is  *)
(* flattened: the children of a definition are the statements of its body. *)
(* Every node starts a source line of its own: node k is on row k - 1,     *)
(* indented by its depth.                                                  *)
(***************************************************************************)
Node(type, name, fn, child0, parameters) ==
    [type |-> type, name |-> name, fn |-> fn, child0 |-> child0, parameters |-> parameters]

\* def name(parameters): ...
FunctionDefinition(name, parameters) == Node("function_definition", name, "", "", parameters)
\* class name: ...
ClassDefinition(name) == Node("class_definition", name, "", "", <<>>)
\* a call whose `function` child has type fn: name(...), obj.name(...), obj[0](...)
CallNode(fn, name) == Node("call", name, fn, "", <<>>)
\* import a / from m import g; name is the statement's source text
ImportNode(type, name) == Node(type, name, "", "", <<>>)
\* an expression statement whose first child has type child0
ExpressionStatement(child0) == Node("expression_statement", "", "", child0, <<>>)
\* any other node with children, here an if statement
IfStatement == Node("if_statement", "", "", "", <<>>)

Tree(p, l) == [parent |-> p, label |-> l]

Size(T) == Len(T.parent)

\* node.children
children(T, k) == SelectSeq([i \in 1..Size(T) |-> i], LAMBDA j : T.parent[j] = k)

RECURSIVE Depth(_, _)
Depth(T, k) == IF T.parent[k] = 0 THEN 0 ELSE 1 + Depth(T, T.parent[k])

RECURSIVE LastDescendant(_, _)
LastDescendant(T, k) ==
    LET c == children(T, k)
    IN  IF c = <<>> THEN k ELSE LastDescendant(T, c[Len(c)])

\* node.start_point[0] and node.end_point[0]: 0-based rows
start_point(T, k) == k - 1
end_point(T, k) == LastDescendant(T, k) - 1

\* code.splitlines(): one line per node, with its indentation and its text
splitlines(T) == [i \in 1..Size(T) |-> [indent |-> Depth(T, i), text |-> T.label[i]]]

Min(S) == CHOOSE x \in S : \A y \in S : x <= y

\* a line holding nothing, or nothing but whitespace
IsBlank(line) == line.text = NoText

\* a dedent whose margin counts the blank lines too
dedent_every_line(lines) ==
    LET margin == Min({lines[i].indent : i \in 1..Len(lines)})
    IN  [i \in 1..Len(lines) |-> [lines[i] EXCEPT !.indent = @ - margin]]

\* textwrap.dedent: strip the leading whitespace common to all lines that
\* hold text; a blank line does not count and is left empty
dedent(lines) ==
    LET solid == {i \in 1..Len(lines) : ~IsBlank(lines[i])}
    IN  IF solid = {} THEN [i \in 1..Len(lines) |-> [lines[i] EXCEPT !.indent = 0]]
        ELSE LET margin == Min({lines[i].indent : i \in solid})
             IN  [i \in 1..Len(lines) |->
                     IF IsBlank(lines[i]) THEN [lines[i] EXCEPT !.indent = 0]
                     ELSE [lines[i] EXCEPT !.indent = @ - margin]]

\* the lines _extract_code appends: range(start_line, end_line + 1), 0-based rows
extracted_lines(lines, start_line, end_line) ==
    [i \in 1..(end_line - start_line + 1) |-> lines[start_line + i]]

\* CodeContextProvider._extract_code
_extract_code(T, k) ==
    dedent(extracted_lines(splitlines(T), start_point(T, k), end_point(T, k)))

\* _extract_lines that takes the end line from start_point too
_extract_lines_of_start(T, k) == <<start_point(T, k) + 1, start_point(T, k) + 1>>

\* CodeContextProvider._extract_lines
_extract_lines(T, k) == <<start_point(T, k) + 1, end_point(T, k) + 1>>

\* the dependency scan that stops at a nested function definition
RECURSIVE DependenciesScoped(_, _, _)
DependenciesScoped(T, k, top) ==
    LET here == IF T.label[k].type = "call" /\ T.label[k].fn \in {"identifier", "attribute"}
                THEN {T.label[k].name} ELSE {}
        c == children(T, k)
    IN  IF T.label[k].type = "function_definition" /\ k # top THEN {}
        ELSE here \cup UNION {DependenciesScoped(T, c[i], top) : i \in 1..Len(c)}

\* the closure visit(node) of _extract_dependencies: the names it adds to
\* dependencies_names from node k downwards (top is the function scanned)
RECURSIVE visit_calls(_, _, _)
visit_calls(T, k, top) ==
    LET here == IF T.label[k].type = "call"
                THEN IF T.label[k].fn = "identifier" THEN {T.label[k].name}
                     ELSE IF T.label[k].fn = "attribute" THEN {T.label[k].name}
                     ELSE {}
                ELSE {}
        c == children(T, k)
    IN  here \cup UNION {visit_calls(T, c[i], top) : i \in 1..Len(c)}

\* CodeContextProvider._extract_dependencies (list(set): kept as the set)
_extract_dependencies(T, k) == visit_calls(T, k, k)

ImportTypes == {"import_statement", "import_from_statement"}

\* CodeContextProvider._extract_imports: the query captures every
\* import_statement and import_from_statement node below root_node
_extract_imports(T) ==
    LET captured == SelectSeq([i \in 1..Size(T) |-> i],
                              LAMBDA j : T.label[j].type \in ImportTypes)
    IN  [i \in 1..Len(captured) |-> _extract_code(T, captured[i])]

\* Docstring(start_line, end_line, content)
Docstring(start_line, end_line, content) ==
    [start_line |-> start_line, end_line |-> end_line, code |-> content]

\* the loop over the statements of the block in _extract_docstring
RECURSIVE ScanBody(_, _, _)
ScanBody(T, body, i) ==
    IF i > Len(body) THEN NoDocstring
    ELSE IF T.label[body[i]].type = "expression_statement"
            /\ T.label[body[i]].child0 = "string"
         THEN Docstring(_extract_lines(T, body[i])[1], _extract_lines(T, body[i])[2],
                        _extract_code(T, body[i]))
         ELSE ScanBody(T, body, i + 1)

\* CodeContextProvider._extract_docstring
_extract_docstring(T, k) == ScanBody(T, children(T, k), 1)

\* the loop over parameters_node.named_children in _extract_fixtures
RECURSIVE IdentifierParams(_, _)
IdentifierParams(named_children, i) ==
    IF i > Len(named_children) THEN <<>>
    ELSE (IF named_children[i].type = "identifier"
          THEN <<named_children[i].name>> ELSE <<>>)
         \o IdentifierParams(named_children, i + 1)

\* _extract_fixtures with the first positional parameter of a signature left out
ParamsWithoutFirst(parameters) ==
    IF parameters = <<>> THEN <<>> ELSE IdentifierParams(parameters, 2)

\* CodeContextProvider._extract_fixtures, on the parameters child of the node
_extract_fixtures(parameters) == IdentifierParams(parameters, 1)

RECURSIVE visit(_, _, _)
RECURSIVE visit_children(_, _, _, _)
RECURSIVE visit_outermost(_, _, _)

\* for child in node.children: await visit(child, current_class=...)
visit_children(T, cs, i, current_class) ==
    IF i > Len(cs) THEN <<>>
    ELSE visit(T, cs[i], current_class) \o visit_children(T, cs, i + 1, current_class)

\* the function_definition branch of visit: the Function it appends
ExtractFunction(T, k, current_class) ==
    Function(T.label[k].name, _extract_code(T, k), current_class,
             _extract_dependencies(T, k), _extract_imports(T),
             _extract_docstring(T, k), _extract_fixtures(T.label[k].parameters),
             _extract_lines(T, k)[1], _extract_lines(T, k)[2])

\* visit with a class context that an inner class does not replace
visit_outermost(T, k, current_class) ==
    IF T.label[k].type = "function_definition"
    THEN <<ExtractFunction(T, k, current_class)>>
    ELSE IF T.label[k].type = "class_definition"
    THEN visit_children(T, children(T, k), 1,
                        IF current_class = None THEN T.label[k].name ELSE current_class)
    ELSE visit_children(T, children(T, k), 1, current_class)

\* visit that goes on into the children of a function definition
visit_below_definitions(T, k, current_class) ==
    IF T.label[k].type = "function_definition"
    THEN <<ExtractFunction(T, k, current_class)>>
         \o visit_children(T, children(T, k), 1, current_class)
    ELSE IF T.label[k].type = "class_definition"
    THEN visit_children(T, children(T, k), 1, T.label[k].name)
    ELSE visit_children(T, children(T, k), 1, current_class)

\* the closure visit(node, current_class) of _extract_info: the Functions it
\* appends to codebase_dict[codebase_path], in order
visit(T, k, current_class) ==
    IF T.label[k].type = "function_definition"
    THEN <<ExtractFunction(T, k, current_class)>>
    ELSE IF T.label[k].type = "class_definition"
    THEN visit_children(T, children(T, k), 1, T.label[k].name)
    ELSE visit_children(T, children(T, k), 1, current_class)

\* CodeContextProvider._extract_info: for child in tree.root_node.children: await visit(child)
_extract_info(T) == visit_children(T, children(T, 0), 1, None)

codebase_path == "a.py"

\* CodeContextProvider.build_context; FileNotFoundError returns codebase_dict as it is
build_context ==
    /\ pc = "start"
    /\ codebase_dict' = IF file_exists
                        THEN (codebase_path :> _extract_info(Tree(parent, label))) @@ codebase_dict
                        ELSE codebase_dict
    /\ pc' = "done"
    /\ UNCHANGED <<parent, label, file_exists, dep, dep_func, file_docstring, exceptTree>>

\* the analyse_diff variables of a specification that attributes no diff
IdleDiff ==
    /\ functions_in_file = <<>> /\ fresh_functions = <<>>
    /\ added_lines = <<>> /\ removed_lines = <<>>
    /\ modified_func_dict = <<>>

OnlyTree == IdleDiff /\ IdleDoc /\ IdleDead /\ IdleMerge /\ IdleRun /\ IdlePath /\ IdleEq /\ IdleSlice /\ IdleGather /\ IdleReview /\ IdleDep /\ IdleQueue /\ IdleDir /\ IdleJoin
OnlyDoc == IdleDiff /\ IdleTree /\ IdleDead /\ IdleMerge /\ IdleRun /\ IdlePath /\ IdleEq /\ IdleSlice /\ IdleGather /\ IdleReview /\ IdleDep /\ IdleQueue /\ IdleDir /\ IdleJoin
OnlyDead == IdleDiff /\ IdleTree /\ IdleMerge /\ IdleRun /\ IdlePath /\ IdleEq /\ IdleSlice /\ IdleGather /\ IdleReview /\ IdleDep /\ IdleQueue /\ IdleDir /\ IdleJoin
OnlyMerge == IdleDiff /\ IdleTree /\ IdleDoc /\ IdleDead /\ IdleRun /\ IdlePath /\ IdleEq /\ IdleSlice /\ IdleGather /\ IdleReview /\ IdleDep /\ IdleQueue /\ IdleDir /\ IdleJoin
OnlyRun == IdleTree /\ IdleDoc /\ IdleDead /\ IdleMerge /\ IdlePath /\ IdleEq /\ IdleSlice /\ IdleGather /\ IdleReview /\ IdleDep /\ IdleQueue /\ IdleDir /\ IdleJoin
OnlyPath == IdleDiff /\ IdleTree /\ IdleDoc /\ IdleDead /\ IdleMerge /\ IdleRun /\ IdleEq /\ IdleSlice /\ IdleGather /\ IdleReview /\ IdleDep /\ IdleQueue /\ IdleDir /\ IdleJoin
OnlyEq == IdleDiff /\ IdleTree /\ IdleDoc /\ IdleDead /\ IdleMerge /\ IdleRun /\ IdlePath /\ IdleSlice /\ IdleGather /\ IdleReview /\ IdleDep /\ IdleQueue /\ IdleDir /\ IdleJoin
OnlySlice == IdleDiff /\ IdleTree /\ IdleDoc /\ IdleDead /\ IdleMerge /\ IdleRun /\ IdlePath /\ IdleEq /\ IdleGather /\ IdleReview /\ IdleDep /\ IdleQueue /\ IdleDir /\ IdleJoin
OnlyGather == IdleTree /\ IdleDoc /\ IdleDead /\ IdleMerge /\ IdlePath /\ IdleEq /\ IdleSlice /\ IdleReview /\ IdleDep /\ IdleQueue /\ IdleDir /\ IdleJoin
OnlyReview == IdleDiff /\ IdleTree /\ IdleDoc /\ IdleDead /\ IdleMerge /\ IdleRun /\ IdlePath /\ IdleEq /\ IdleSlice /\ IdleGather /\ IdleDep /\ IdleQueue /\ IdleDir /\ IdleJoin
OnlyDep == IdleDiff /\ IdleTree /\ IdleDoc /\ IdleDead /\ IdleMerge /\ IdleRun /\ IdlePath /\ IdleEq /\ IdleSlice /\ IdleGather /\ IdleReview /\ IdleQueue /\ IdleDir /\ IdleJoin
OnlyQueue == IdleDiff /\ IdleTree /\ IdleDoc /\ IdleDead /\ IdleMerge /\ IdleRun /\ IdlePath /\ IdleEq /\ IdleSlice /\ IdleGather /\ IdleReview /\ IdleDep /\ IdleDir /\ IdleJoin
OnlyDir == IdleDiff /\ IdleTree /\ IdleDoc /\ IdleDead /\ IdleMerge /\ IdleRun /\ IdlePath /\ IdleEq /\ IdleSlice /\ IdleGather /\ IdleReview /\ IdleDep /\ IdleQueue /\ IdleJoin
OnlyJoin == IdleDiff /\ IdleTree /\ IdleDoc /\ IdleDead /\ IdleMerge /\ IdleRun /\ IdlePath /\ IdleEq /\ IdleSlice /\ IdleGather /\ IdleReview /\ IdleDep /\ IdleQueue /\ IdleDir

\* parent vectors of the trees with n nodes: the parent of node k is 0 or lies
\* on the path from the root to node k - 1
RECURSIVE OnPath(_, _, _)
OnPath(p, a, k) == k # 0 /\ (a = k \/ OnPath(p, a, p[k]))

RECURSIVE ParentVectors(_)
ParentVectors(n) ==
    IF n = 0 THEN {<<>>}
    ELSE UNION {{Append(p, a) : a \in {0} \cup {b \in 1..(n - 1) : OnPath(p, b, n - 1)}} :
                    p \in ParentVectors(n - 1)}

\* what the grammar allows below a node: nothing below an import or a bare
\* string statement, only further calls below a call
WellFormed(T) ==
    \A k \in 1..Size(T) :
        LET up == T.parent[k]
        IN  up # 0 =>
              /\ T.label[up].type \notin ImportTypes \cup {"expression_statement"}
              /\ T.label[up].type = "call" => T.label[k].type = "call"

\* a tree of at most MaxNodes nodes labelled from Labels
InitTree(Labels) ==
    /\ pc = "start"
    /\ \E n \in 0..MaxNodes : \E p \in ParentVectors(n) : \E l \in [1..n -> Labels] :
          WellFormed(Tree(p, l)) /\ parent = p /\ label = l
    /\ codebase_dict = <<>>
    /\ file_exists = TRUE /\ dep = None /\ dep_func = NoFunction /\ file_docstring = NoDocstring
    /\ OnlyTree

\* definitions, classes, blocks and imports: the structure of a file
StructureLabels ==
    {FunctionDefinition(n, <<>>) : n \in FuncNames}
    \cup {ClassDefinition(n) : n \in {"C", "D"}}
    \cup {IfStatement, ImportNode("import_statement", "import a")}

InitExtract == InitTree(StructureLabels)

NextExtract == build_context

SpecExtract == InitExtract /\ [][NextExtract]_vars

\* calls of every kind inside (nested) function definitions and blocks
CallLabels ==
    {FunctionDefinition("f", <<>>), IfStatement, CallNode("subscript", "")}
    \cup {CallNode(fn, n) : fn \in {"identifier", "attribute"}, n \in {"g", "h"}}

InitDeps == InitTree(CallLabels)

SpecDeps == InitDeps /\ [][NextExtract]_vars

\* function bodies made of bare strings and other statements
BodyLabels ==
    {FunctionDefinition("f", <<>>), IfStatement,
     ExpressionStatement("string"), ExpressionStatement("identifier")}

InitDoc == InitTree(BodyLabels)

SpecDoc == InitDoc /\ [][NextExtract]_vars

\* the named children of a parameters node: self, a, a: int, a=1, *args, **kwargs
ParameterNodes ==
    {[type |-> "identifier", name |-> "self"], [type |-> "identifier", name |-> "a"],
     [type |-> "typed_parameter", name |-> "a"], [type |-> "default_parameter", name |-> "a"],
     [type |-> "list_splat_pattern", name |-> "args"],
     [type |-> "dictionary_splat_pattern", name |-> "kwargs"]}

Signatures(max) == UNION {[1..n -> ParameterNodes] : n \in 0..max}

\* one function with any signature, at module level or as the method of a class
InitParams ==
    /\ pc = "start"
    /\ \E sig \in Signatures(MaxParams) :
          \/ parent = <<0>> /\ label = <<FunctionDefinition("f", sig)>>
          \/ parent = <<0, 1>> /\ label = <<ClassDefinition("C"), FunctionDefinition("f", sig)>>
    /\ codebase_dict = <<>>
    /\ file_exists = TRUE /\ dep = None /\ dep_func = NoFunction /\ file_docstring = NoDocstring
    /\ OnlyTree

SpecParams == InitParams /\ [][NextExtract]_vars

(***************************************************************************)
(* Properties of build_context                                             *)
(***************************************************************************)
TheTree == Tree(parent, label)

\* the Functions build_context returned for the file
Extracted == codebase_dict[codebase_path]

\* the function_definition nodes of the file, in document pre-order
DefinitionNodes ==
    SelectSeq([i \in 1..Len(parent) |-> i], LAMBDA j : label[j].type = "function_definition")

\* node a is a proper ancestor of node k
IsAncestor(a, k) == a # k /\ OnPath(parent, a, k)

\* the node a Function was built from: the definition starting on its start_line
NodeOf(f) == f.start_line

\* C4: build_context returns exactly one Function per function_definition
\* node of the tree, nested definitions included, in document pre-order.
C4_OneFunctionPerDefinition ==
    pc = "done" =>
        /\ Len(Extracted) = Len(DefinitionNodes)
        /\ \A i \in 1..Len(Extracted) :
               i <= Len(DefinitionNodes) =>
                   /\ NodeOf(Extracted[i]) = DefinitionNodes[i]
                   /\ Extracted[i].func_name = label[DefinitionNodes[i]].name

\* the name of the nearest class_definition node enclosing node k, or None
RECURSIVE NearestClass(_)
NearestClass(k) ==
    IF parent[k] = 0 THEN None
    ELSE IF label[parent[k]].type = "class_definition" THEN label[parent[k]].name
    ELSE NearestClass(parent[k])

\* C5: every emitted Function has as class_name the name of the nearest
\* enclosing class definition (None without one), and is_method is true
\* exactly when class_name is present.
C5_NearestEnclosingClass ==
    pc = "done" =>
        \A i \in 1..Len(Extracted) :
            /\ Extracted[i].class_name = NearestClass(NodeOf(Extracted[i]))
            /\ Extracted[i].is_method <=> (Extracted[i].class_name # None)

\* C5 witness: a method of a class nested in another class, followed at the
\* outer level by a function that carries no class.
C5_Witness ==
    /\ pc = "done"
    /\ \E i, j \in 1..Len(Extracted) :
          /\ i < j
          /\ Extracted[i].is_method
          /\ \E c \in 1..Len(parent) :
                /\ label[c].type = "class_definition"
                /\ parent[c] # 0 /\ label[parent[c]].type = "class_definition"
                /\ label[parent[c]].name # label[c].name
                /\ parent[NodeOf(Extracted[i])] = c
                /\ Extracted[i].class_name = label[c].name
          /\ parent[NodeOf(Extracted[j])] = 0
          /\ Extracted[j].class_name = None /\ ~Extracted[j].is_method

\* the import statements that are children of root_node, as source text
TopLevelImports ==
    LET top == SelectSeq([i \in 1..Len(parent) |-> i],
                         LAMBDA j : label[j].type \in ImportTypes /\ parent[j] = 0)
    IN  [i \in 1..Len(top) |-> <<[indent |-> 0, text |-> label[top[i]]]>>]

\* C8: all Functions of a file carry the same imports list, made of exactly
\* the top-level import statements of the file; a nested import is not in it.
C8_TopLevelImportsOnly ==
    pc = "done" =>
        \A i \in 1..Len(Extracted) : Extracted[i].imports = TopLevelImports

\* the call nodes at or below node k whose target is an identifier or attribute
CallTargets(k) ==
    {label[c].name : c \in {d \in 1..Len(parent) :
                               /\ OnPath(parent, k, d)
                               /\ label[d].type = "call"
                               /\ label[d].fn \in {"identifier", "attribute"}}}

\* C6: the dependencies of a Function are exactly the call-target names of all
\* call nodes in its subtree (identifier of a bare call, trailing attribute of
\* an attribute call), calls inside nested definitions included; the function
\* whose only call is g() has {g}.
C6_DependenciesAreCallTargets ==
    pc = "done" =>
        \A i \in 1..Len(Extracted) :
            Extracted[i].dependencies = CallTargets(NodeOf(Extracted[i]))

\* C6 witness: a function holding a bare call of g directly and an attribute
\* call of h inside a nested definition, with dependencies {g, h}.
C6_Witness ==
    /\ pc = "done"
    /\ \E i \in 1..Len(Extracted) :
          LET k == NodeOf(Extracted[i])
          IN  /\ Extracted[i].dependencies = {"g", "h"}
              /\ \E c \in 1..Len(parent) :
                    parent[c] = k /\ label[c] = CallNode("identifier", "g")
              /\ \E d, c \in 1..Len(parent) :
                    /\ label[d].type = "function_definition" /\ IsAncestor(k, d)
                    /\ IsAncestor(d, c) /\ label[c] = CallNode("attribute", "h")

\* C7: a Function has a docstring only if the first statement of its body is
\* a standalone string expression.
C7_DocstringIsFirstStatement ==
    pc = "done" =>
        \A i \in 1..Len(Extracted) :
            Extracted[i].docstring # NoDocstring =>
                LET body == children(TheTree, NodeOf(Extracted[i]))
                IN  /\ body # <<>>
                    /\ label[body[1]] = ExpressionStatement("string")

\* the names of the plain identifier parameters, in signature order
PlainIdentifiers(sig) ==
    LET plain == SelectSeq(sig, LAMBDA q : q.type = "identifier")
    IN  [i \in 1..Len(plain) |-> plain[i].name]

\* C9: params are the plain identifier parameters in signature order; typed,
\* default-valued and variadic parameters are left out, and the first
\* parameter of a method is listed like any other.
C9_ParamsArePlainIdentifiers ==
    pc = "done" =>
        \A i \in 1..Len(Extracted) :
            Extracted[i].params = PlainIdentifiers(label[NodeOf(Extracted[i])].parameters)

\* C9 witness: a method def f(self, a: int, *args) whose params are <<self>>.
C9_Witness ==
    /\ pc = "done"
    /\ \E i \in 1..Len(Extracted) :
          /\ Extracted[i].is_method
          /\ Len(label[NodeOf(Extracted[i])].parameters) = 3
          /\ label[NodeOf(Extracted[i])].parameters[1] = [type |-> "identifier", name |-> "self"]
          /\ label[NodeOf(Extracted[i])].parameters[2].type = "typed_parameter"
          /\ label[NodeOf(Extracted[i])].parameters[3].type = "list_splat_pattern"
          /\ Extracted[i].params = <<"self">>

(***************************************************************************)
(* Configuration document as yaml.safe_load returns it: values numbered in *)
(* document order 1..n, value 1 is the document; the entries of a mapping  *)
(* and the items of a list are the values naming it as parent, in order,   *)
(* and a mapping entry carries its key.                                    *)
(***************************************************************************)
Value(type, key, val) == [type |-> type, key |-> key, val |-> val]

Doc(p, l) == [parent |-> p, label |-> l]

\* node.items() of a mapping, or the items of a list
items(D, k) == SelectSeq([i \in 1..Len(D.parent) |-> i], LAMBDA j : D.parent[j] = k)

\* the closure visit(node) of get_called_pipelines: the names it adds to
\* pipelines_called from value k downwards
RECURSIVE visit_called(_, _)
visit_called(D, k) ==
    LET c == items(D, k)
    IN  IF D.label[k].type = "dict"
        THEN UNION {IF D.label[c[i]].key = "pipelines" /\ D.label[c[i]].type = "list"
                    THEN {D.label[it].val : it \in {x \in 1..Len(D.parent) :
                              D.parent[x] = c[i] /\ D.label[x].type = "str"}}
                    ELSE visit_called(D, c[i]) : i \in 1..Len(c)}
        ELSE IF D.label[k].type = "list"
        THEN UNION {visit_called(D, c[i]) : i \in 1..Len(c)}
        ELSE {}

\* a configuration file: its path, whether open() and yaml.safe_load succeed,
\* and the document it loads as
ConfigFile(path, readable, p, l) ==
    [path |-> path, readable |-> readable, parent |-> p, label |-> l]

\* local_folder/conf/<country>/pipelines.yml
pipelines_file == <<"code_for_review", "conf", "sg", "pipelines.yml">>

\* the file get_called_pipelines and get_defined_pipelines read
TheConfigFile == ConfigFile(pipelines_file, doc_readable, doc_parent, doc_label)

\* what provider.get_called_pipelines() returns for file F
pipelines_called_in(F) ==
    IF ~F.readable \/ F.parent = <<>> THEN {} ELSE visit_called(F, 1)

\* CodeContextProvider.get_called_pipelines
get_called_pipelines ==
    /\ pc = "start"
    /\ pipelines_called' = pipelines_called_in(TheConfigFile)
    /\ pc' = "done"
    /\ UNCHANGED <<doc_parent, doc_label, doc_readable, all_pipelines, exceptDoc>>

DocKeys == {"pipelines", "x"}
DocStrings == {"p1", "p2"}

\* the values a document is made of: mappings, lists, strings and a number
DocValuesOver(keys, strings) ==
    {Value(t, k, "") : t \in {"dict", "list", "int"}, k \in keys \cup {""}}
    \cup {Value("str", k, v) : k \in keys \cup {""}, v \in strings}

DocValues == DocValuesOver(DocKeys, DocStrings)

\* value k fits the values before it: every value but the first lies inside a
\* mapping or a list, an entry of a mapping has a key no earlier entry of that
\* mapping has, and a list item or the document itself has none
WellFormedValue(p, l, k) ==
    LET up == p[k]
    IN  /\ (k = 1) <=> (up = 0)
        /\ up = 0 => l[k].key = ""
        /\ up # 0 =>
             /\ l[up].type \in {"dict", "list"}
             /\ (l[up].type = "dict") <=> (l[k].key # "")
             /\ l[up].type = "dict" =>
                    \A j \in 1..(k - 1) : p[j] = up => l[j].key # l[k].key

\* labellings, with the values V, of the first n values of the shape p that
\* make a document
RECURSIVE Labellings(_, _, _)
Labellings(p, n, V) ==
    IF n = 0 THEN {<<>>}
    ELSE LET shorter == Labellings(p, n - 1, V)
         IN  UNION {{Append(m, v) : v \in {w \in V : WellFormedValue(p, Append(m, w), n)}} :
                       m \in shorter}

DocLabellings(p, n) == Labellings(p, n, DocValues)

InitPipelines ==
    /\ pc = "start"
    /\ \E n \in 0..MaxDocNodes : \E p \in ParentVectors(n) : \E l \in DocLabellings(p, n) :
          doc_parent = p /\ doc_label = l
    /\ doc_readable = TRUE
    /\ pipelines_called = {}
    /\ all_pipelines = <<>>
    /\ OnlyDoc

NextPipelines == get_called_pipelines

SpecPipelines == InitPipelines /\ [][NextPipelines]_vars

(***************************************************************************)
(* Properties of get_called_pipelines                                      *)
(***************************************************************************)
\* the string elements of every list that is the value of a `pipelines` key
PipelineListStrings ==
    {doc_label[s].val : s \in {x \in 1..Len(doc_parent) :
        /\ doc_label[x].type = "str"
        /\ doc_parent[x] # 0
        /\ doc_label[doc_parent[x]].type = "list"
        /\ doc_label[doc_parent[x]].key = "pipelines"}}

\* C10: get_called_pipelines returns exactly the string elements of every
\* list stored under a `pipelines` key, at every nesting depth, a `pipelines`
\* key inside the list value of another `pipelines` key included.
C10_CalledPipelinesAtEveryDepth ==
    pc = "done" => pipelines_called = PipelineListStrings

(***************************************************************************)
(* CodeContextProvider.get_defined_pipelines                               *)
(***************************************************************************)
\* the characters of the strings the documents hold (iterating a str)
Characters(s) ==
    CASE s = "n1" -> {"n", "1"}
      [] s = "n2" -> {"n", "2"}
      [] s = "p1" -> {"p", "1"}
      [] s = "p2" -> {"p", "2"}

\* the values named by the entries of mapping or list v
members(D, v) == {x \in 1..Len(D.parent) : D.parent[x] = v}

\* set(nodes) raises TypeError: nodes is a number, or a list holding a
\* mapping or a list (unhashable)
set_raises(D, v) ==
    \/ D.label[v].type = "int"
    \/ /\ D.label[v].type = "list"
       /\ \E x \in members(D, v) : D.label[x].type \in {"dict", "list"}

\* set(nodes): the items of a list, the keys of a mapping, the characters of
\* a string; the number of the model is the only scalar whose val is ""
nodes_set(D, v) ==
    CASE D.label[v].type = "list" -> {D.label[x].val : x \in members(D, v)}
      [] D.label[v].type = "dict" -> {D.label[x].key : x \in members(D, v)}
      [] D.label[v].type = "str" -> Characters(D.label[v].val)

\* the closure visit(node) of get_defined_pipelines, threading
\* st = [raised, all_pipelines] through the entries c[i..] of container k
RECURSIVE visit_defined(_, _, _)
RECURSIVE visit_defined_items(_, _, _, _, _)
visit_defined_items(D, k, c, i, st) ==
    IF st.raised \/ i > Len(c) THEN st
    ELSE LET value == c[i]
             nodes == {x \in members(D, value) : D.label[x].key = "nodes"}
             next ==
                 IF D.label[k].type = "list" THEN visit_defined(D, value, st)
                 ELSE IF D.label[value].type = "dict"
                 THEN IF nodes # {}
                      THEN LET v == CHOOSE x \in nodes : TRUE
                           IN  IF set_raises(D, v) THEN [st EXCEPT !.raised = TRUE]
                               ELSE visit_defined(D, value,
                                       [st EXCEPT !.all_pipelines =
                                           (D.label[value].key :> nodes_set(D, v)) @@ @])
                      ELSE st
                 ELSE visit_defined(D, value, st)
         IN  visit_defined_items(D, k, c, i + 1, next)

visit_defined(D, k, st) ==
    IF D.label[k].type \in {"dict", "list"}
    THEN visit_defined_items(D, k, items(D, k), 1, st)
    ELSE st

\* get_defined_pipelines returning what it gathered before an error
all_pipelines_in_partial(F) ==
    IF ~F.readable \/ F.parent = <<>> THEN <<>>
    ELSE visit_defined(F, 1, [raised |-> FALSE, all_pipelines |-> <<>>]).all_pipelines

\* what provider.get_defined_pipelines() returns for file F
all_pipelines_in(F) ==
    IF ~F.readable \/ F.parent = <<>> THEN <<>>
    ELSE LET st == visit_defined(F, 1, [raised |-> FALSE, all_pipelines |-> <<>>])
         IN  IF st.raised THEN <<>> ELSE st.all_pipelines

\* CodeContextProvider.get_defined_pipelines
get_defined_pipelines ==
    /\ pc = "start"
    /\ all_pipelines' = all_pipelines_in(TheConfigFile)
    /\ pc' = "done"
    /\ UNCHANGED <<doc_parent, doc_label, doc_readable, pipelines_called, exceptDoc>>

DefinitionKeys == {"nodes", "p", "q"}
DefinitionStrings == {"n1"}

InitDefined ==
    /\ pc = "start"
    /\ \E n \in 0..MaxDocNodes : \E p \in ParentVectors(n) :
          \E l \in Labellings(p, n, DocValuesOver(DefinitionKeys, DefinitionStrings)) :
              doc_parent = p /\ doc_label = l
    /\ doc_readable = TRUE
    /\ pipelines_called = {}
    /\ all_pipelines = <<>>
    /\ OnlyDoc

NextDefined == get_defined_pipelines

SpecDefined == InitDefined /\ [][NextDefined]_vars

(***************************************************************************)
(* Properties of get_defined_pipelines                                     *)
(***************************************************************************)
TheDoc == Doc(doc_parent, doc_label)

\* the mapping values that are themselves mappings containing a `nodes` key
PipelineMappings ==
    {k \in 1..Len(doc_parent) :
        /\ doc_label[k].type = "dict"
        /\ doc_label[k].key # ""
        /\ \E x \in members(TheDoc, k) : doc_label[x].key = "nodes"}

NodesValue(k) == CHOOSE x \in members(TheDoc, k) : doc_label[x].key = "nodes"

\* the `nodes` value is a string, a mapping or a list of scalars
IsCollection(v) ==
    \/ doc_label[v].type \in {"str", "dict"}
    \/ /\ doc_label[v].type = "list"
       /\ \A x \in members(TheDoc, v) : doc_label[x].type \in {"str", "int"}

\* C11: get_defined_pipelines returns an entry, enclosing key -> set of the
\* `nodes` value, for every mapping value at any depth that is itself a
\* mapping containing a `nodes` key, also below a mapping without a `nodes`
\* key and inside another pipeline's mapping (documents whose `nodes` values
\* are all collections; a name defined once maps to exactly its node set).
C11_DefinedPipelinesAtEveryDepth ==
    (pc = "done" /\ \A k \in PipelineMappings : IsCollection(NodesValue(k))) =>
        \A k \in PipelineMappings :
            /\ doc_label[k].key \in DOMAIN all_pipelines
            /\ (\A j \in PipelineMappings : doc_label[j].key = doc_label[k].key => j = k)
                   => all_pipelines[doc_label[k].key] = nodes_set(TheDoc, NodesValue(k))

(***************************************************************************)
(* CodeContextProvider.get_defined_nodes                                   *)
(***************************************************************************)
\* the entry of mapping v stored under key
entry(F, v, key) == CHOOSE x \in members(F, v) : F.label[x].key = key

\* values['func'] or values['inputs'] raises: values is no mapping (TypeError)
\* or lacks the key (KeyError)
entry_raises(F, values) ==
    \/ F.label[values].type # "dict"
    \/ \A x \in members(F, values) : F.label[x].key # "func"
    \/ \A x \in members(F, values) : F.label[x].key # "inputs"

\* for node_name, values in data.items(), threading st = [raised, all_nodes];
\* func and inputs are kept as the places of their values in the document
RECURSIVE defined_nodes_loop(_, _, _, _)
defined_nodes_loop(F, c, i, st) ==
    IF st.raised \/ i > Len(c) THEN st
    ELSE LET values == c[i]
         IN  defined_nodes_loop(F, c, i + 1,
                 IF entry_raises(F, values) THEN [st EXCEPT !.raised = TRUE]
                 ELSE [st EXCEPT !.all_nodes =
                          (F.label[values].key :>
                              [file |-> Tail(F.path),
                               func |-> entry(F, values, "func"),
                               inputs |-> entry(F, values, "inputs")]) @@ @])

\* what provider.get_defined_nodes() returns for file F: {} for a file that
\* does not load, for empty data, and when data.items() or an entry raises
all_nodes_in(F) ==
    IF ~F.readable \/ F.parent = <<>> THEN <<>>
    ELSE IF F.label[1].type \in {"dict", "list"} /\ members(F, 1) = {} THEN <<>>
    ELSE IF F.label[1].type # "dict" THEN <<>>
    ELSE LET st == defined_nodes_loop(F, items(F, 1), 1,
                                      [raised |-> FALSE, all_nodes |-> <<>>])
         IN  IF st.raised THEN <<>> ELSE st.all_nodes

(***************************************************************************)
(* DeadcodeFinder.find_unused_pipelines and find_unused_nodes              *)
(***************************************************************************)
\* the union of the nodes of every defined pipeline, called or not
nodes_called_of_all(called_pipelines, pipelines) ==
    UNION {pipelines[p] : p \in DOMAIN pipelines}

\* for pipeline_name in called_pipelines: nodes = all_pipelines.get(...);
\* if nodes: nodes_called = nodes_called.union(nodes)
nodes_called_of(called_pipelines, pipelines) ==
    UNION {IF p \in DOMAIN pipelines /\ pipelines[p] # {} THEN pipelines[p] ELSE {} :
              p \in called_pipelines}

\* all_nodes.update(nodes) for the node files files[i..], in listing order
RECURSIVE update_all_nodes(_, _, _)
update_all_nodes(files, i, nodes) ==
    IF i > Len(files) THEN nodes
    ELSE update_all_nodes(files, i + 1, all_nodes_in(files[i]) @@ nodes)

find_unused_pipelines ==
    /\ pc = "start"
    /\ LET called == pipelines_called_in(TheConfigFile)
           defined == all_pipelines_in(TheConfigFile)
       IN  /\ pipelines_called' = called
           /\ all_pipelines' = defined
           /\ unused_pipelines' = DOMAIN defined \ called
           /\ undefined_pipelines' = called \ DOMAIN defined
    /\ pc' = "pipelines"
    /\ UNCHANGED <<doc_parent, doc_label, doc_readable, node_files, all_nodes,
                   nodes_called, unused_nodes_name, undefined_nodes_name, exceptDead>>

find_unused_nodes ==
    /\ pc = "pipelines"
    /\ LET called == nodes_called_of(pipelines_called, all_pipelines)
           defined == update_all_nodes(node_files, 1, <<>>)
       IN  /\ nodes_called' = called
           /\ all_nodes' = defined
           /\ unused_nodes_name' = DOMAIN defined \ called
           /\ undefined_nodes_name' = called \ DOMAIN defined
    /\ pc' = "done"
    /\ UNCHANGED <<docVars, node_files, unused_pipelines, undefined_pipelines, exceptDead>>

\* Configuration documents of the shape the review reads: pipeline
\* definitions `name: {nodes: [...]}` at the top of pipelines.yml or below a
\* wrapping key, a call site `run: {pipelines: [...]}`, and node files
\* `name: {func: ..., inputs: ...}`.
Attach(D, up, v) == [parent |-> Append(D.parent, up), label |-> Append(D.label, v)]

RECURSIVE AttachItems(_, _, _, _)
AttachItems(D, up, names, i) ==
    IF i > Len(names) THEN D
    ELSE AttachItems(Attach(D, up, Value("str", "", names[i])), up, names, i + 1)

RECURSIVE AttachPipelines(_, _, _, _)
AttachPipelines(D, up, defs, i) ==
    IF i > Len(defs) THEN D
    ELSE LET D1 == Attach(D, up, Value("dict", defs[i].name, ""))
             D2 == Attach(D1, Len(D1.parent), Value("list", "nodes", ""))
         IN  AttachPipelines(AttachItems(D2, Len(D2.parent), defs[i].nodes, 1), up, defs, i + 1)

PipelinesDocument(wrapper, defs, calls) ==
    LET root == Doc(<<0>>, <<Value("dict", "", "")>>)
        D1 == IF wrapper = "" THEN root ELSE Attach(root, 1, Value("dict", wrapper, ""))
        D2 == AttachPipelines(D1, Len(D1.parent), defs, 1)
        D3 == Attach(D2, 1, Value("dict", "run", ""))
        D4 == Attach(D3, Len(D3.parent), Value("list", "pipelines", ""))
    IN  AttachItems(D4, Len(D4.parent), calls, 1)

RECURSIVE AttachNodes(_, _, _)
AttachNodes(D, names, i) ==
    IF i > Len(names) THEN D
    ELSE LET D1 == Attach(D, 1, Value("dict", names[i], ""))
             up == Len(D1.parent)
         IN  AttachNodes(Attach(Attach(D1, up, Value("str", "func", "f")),
                                up, Value("str", "inputs", "i")), names, i + 1)

\* local_folder/conf/<country>/nodes/<subfolder>/<file> defining the nodes `names`
NodeFile(names) ==
    LET D == AttachNodes(Doc(<<0>>, <<Value("dict", "", "")>>), names, 1)
    IN  ConfigFile(<<"code_for_review", "conf", "sg", "nodes", "a", "nodes.yml">>,
                   TRUE, D.parent, D.label)

MaxNodeFiles == 2   \* node configuration files below one nodes folder

PipelineNames == {"p1", "p2"}
NodeNames == {"n1", "n2"}

PipelineDefinitions ==
    {d \in InjSeqs([name : PipelineNames, nodes : InjSeqs(NodeNames, 2)], 2) :
        \A i, j \in 1..Len(d) : i # j => d[i].name # d[j].name}

InitDeadcode ==
    /\ pc = "start"
    /\ \E wrapper \in {"", "pipelines"} : \E defs \in PipelineDefinitions :
          \E calls \in InjSeqs(PipelineNames, 2) :
              LET D == PipelinesDocument(wrapper, defs, calls)
              IN  doc_parent = D.parent /\ doc_label = D.label
    /\ doc_readable = TRUE
    /\ \E n \in 0..MaxNodeFiles : \E names \in [1..n -> InjSeqs(NodeNames, 2)] :
          node_files = [i \in 1..n |-> NodeFile(names[i])]
    /\ pipelines_called = {} /\ all_pipelines = <<>> /\ all_nodes = <<>>
    /\ unused_pipelines = {} /\ undefined_pipelines = {}
    /\ nodes_called = {} /\ unused_nodes_name = {} /\ undefined_nodes_name = {}
    /\ OnlyDead

NextDeadcode == find_unused_pipelines \/ find_unused_nodes

SpecDeadcode == InitDeadcode /\ [][NextDeadcode]_vars

(***************************************************************************)
(* Properties of the pipeline and node analysis                            *)
(***************************************************************************)
\* pipelines.yml holding pipelines: {p1: {nodes: [n1, n2]}} and the call
\* site pipelines: [p1], with one node file defining n1 only
WorkedExample ==
    LET D == PipelinesDocument("pipelines",
                 <<[name |-> "p1", nodes |-> <<"n1", "n2">>]>>, <<"p1">>)
    IN  /\ doc_parent = D.parent /\ doc_label = D.label
        /\ node_files = <<NodeFile(<<"n1">>)>>

\* C12: for pipelines: {p1: {nodes: [n1, n2]}}, the call site pipelines: [p1]
\* and a node configuration defining only n1, the analysis yields
\* called_pipelines = {p1}, defined_pipelines = {p1: {n1, n2}},
\* unused_pipelines = {} and undefined_nodes = {n2}.
C12_WorkedExample ==
    (pc = "done" /\ WorkedExample) =>
        /\ pipelines_called = {"p1"}
        /\ all_pipelines = ("p1" :> {"n1", "n2"})
        /\ unused_pipelines = {}
        /\ undefined_nodes_name = {"n2"}

\* the node names the node files define
NodeNamesInFiles ==
    UNION {{f.label[x].key : x \in members(f, 1)} : f \in {node_files[i] : i \in 1..Len(node_files)}}

\* the five sets find_unused_pipelines and find_unused_nodes compute
SetAlgebra ==
    /\ unused_pipelines = DOMAIN all_pipelines \ pipelines_called
    /\ undefined_pipelines = pipelines_called \ DOMAIN all_pipelines
    /\ nodes_called = UNION {all_pipelines[p] : p \in pipelines_called \cap DOMAIN all_pipelines}
    /\ DOMAIN all_nodes = NodeNamesInFiles
    /\ unused_nodes_name = DOMAIN all_nodes \ nodes_called
    /\ undefined_nodes_name = nodes_called \ DOMAIN all_nodes
    /\ unused_pipelines \cap undefined_pipelines = {}
    /\ unused_nodes_name \cap undefined_nodes_name = {}

\* C13 as stated: the set algebra, the unused and undefined sets disjoint,
\* and no node of a defined-but-never-called pipeline reported undefined.
C13_AsStated ==
    pc = "done" =>
        /\ SetAlgebra
        /\ \A p \in DOMAIN all_pipelines \ pipelines_called :
               all_pipelines[p] \cap undefined_nodes_name = {}

\* C13 amended: the set algebra, the unused and undefined sets disjoint, and
\* a node that belongs to no pipeline both called and defined is never
\* reported undefined (a node shared with a called pipeline is).
C13_SetAlgebra ==
    pc = "done" =>
        /\ SetAlgebra
        /\ \A p \in DOMAIN all_pipelines \ pipelines_called :
               \A n \in all_pipelines[p] :
                   (\A q \in pipelines_called \cap DOMAIN all_pipelines : n \notin all_pipelines[q])
                       => n \notin undefined_nodes_name

\* C13 witness: p1 called and defined with the undefined node n1, p2 defined
\* and never called with the defined node n2.
C13_Witness ==
    /\ pc = "done"
    /\ pipelines_called = {"p1"}
    /\ all_pipelines = ("p1" :> {"n1"}) @@ ("p2" :> {"n2"})
    /\ unused_pipelines = {"p2"}
    /\ nodes_called = {"n1"}
    /\ DOMAIN all_nodes = {"n2"}
    /\ unused_nodes_name = {"n2"}
    /\ undefined_nodes_name = {"n1"}

(***************************************************************************)
(* Function.mergeFunctions, as review_tested_functions calls it on the     *)
(* test cases of one modified function                                     *)
(***************************************************************************)
\* the empty line that '\n\n' puts between two codes
BlankLine == [indent |-> 0, text |-> NoText]

\* mergeFunctions with '\n' for '\n\n': no empty line between the codes
mergeFunctionsNoGap(self, func) ==
    [self EXCEPT !.func_code = dedent(self.func_code \o func.func_code),
                 !.dependencies = @ \cup func.dependencies]

\* Function.mergeFunctions: self after the call
mergeFunctions(self, func) ==
    LET added_code == func.func_code
        new_code == self.func_code \o <<BlankLine>> \o added_code
    IN  [self EXCEPT !.func_code = dedent(new_code),
                     !.dependencies = @ \cup func.dependencies]

\* merged_func.mergeFunctions(tested_func)
merge_test_case ==
    /\ pc = "start"
    /\ merged_func' = mergeFunctions(merged_func, tested_func)
    /\ pc' = "done"
    /\ UNCHANGED <<tested_func, exceptMerge>>

MaxCodeLines == 3   \* lines of the code of one test case

\* The lines of a test function in its file: the def line, then statements,
\* lines of multi-line strings (at any indentation) and blank lines; the
\* last line holds text.
BodyLines ==
    {[indent |-> n, text |-> ExpressionStatement("string")] : n \in 0..2} \cup {BlankLine}

SourceLines(name) ==
    {<<[indent |-> n, text |-> FunctionDefinition(name, <<>>)]>> \o body :
        n \in 0..1,
        body \in {b \in UNION {[1..m -> BodyLines] : m \in 0..(MaxCodeLines - 1)} :
                     b # <<>> => ~IsBlank(b[Len(b)])}}

\* the test cases build_context extracts: their code went through _extract_code
TestCases(name) ==
    {Function(name, dedent(lines), None, deps, <<>>, NoDocstring, <<>>, 1, Len(lines)) :
        lines \in SourceLines(name), deps \in SUBSET {"f", "g"}}

InitMerge ==
    /\ pc = "start"
    /\ merged_func \in TestCases("test_f_one")
    /\ tested_func \in TestCases("test_f_two")
    /\ OnlyMerge

NextMerge == merge_test_case

SpecMerge == InitMerge /\ [][NextMerge]_vars

(***************************************************************************)
(* Properties of mergeFunctions                                            *)
(***************************************************************************)
\* C14: after A.mergeFunctions(B), A.dependencies as a set is the union of
\* the previous dependencies of A and B, and A.func_code is the previous
\* code of A, exactly one blank line, then the code of B.
C14_MergeKeepsBothCodes ==
    [][merge_test_case =>
          /\ merged_func'.dependencies = merged_func.dependencies \cup tested_func.dependencies
          /\ merged_func'.func_code = merged_func.func_code \o <<BlankLine>> \o tested_func.func_code
          /\ merged_func'.func_code[Len(merged_func.func_code) + 1] = BlankLine
          /\ ~IsBlank(merged_func'.func_code[Len(merged_func.func_code)])
          /\ ~IsBlank(merged_func'.func_code[Len(merged_func.func_code) + 2])]_vars

\* C14 witness: two test cases with indented bodies and different
\* dependencies, merged into five lines around one blank line.
C14_Witness ==
    /\ pc = "done"
    /\ merged_func.dependencies = {"f", "g"}
    /\ tested_func.dependencies = {"g"}
    /\ Len(tested_func.func_code) = 2 /\ tested_func.func_code[2].indent = 1
    /\ Len(merged_func.func_code) = 5
    /\ merged_func.func_code[2].indent = 2
    /\ merged_func.func_code[3] = BlankLine
    /\ merged_func.func_code[4].text = FunctionDefinition("test_f_two", <<>>)
    /\ merged_func.func_code[5] = tested_func.func_code[2]

(***************************************************************************)
(* analyse_diff called again with the same diff: on a fresh list of the    *)
(* same file, then on the list the first call annotated                    *)
(***************************************************************************)
analyse_diff_fresh(path) ==
    /\ pc = "done"
    /\ \E order \in ModifiedLineOrders(added_lines, removed_lines) :
          LET st == AnalyseLoop([funcs |-> fresh_functions, modified_functions |-> {}],
                                added_lines, removed_lines, order, 1)
          IN  /\ fresh_functions' = st.funcs
              /\ modified_func_dict' = (path :> st.modified_functions) @@ modified_func_dict
    /\ pc' = "fresh"
    /\ UNCHANGED <<functions_in_file, added_lines, removed_lines, exceptDiff>>

analyse_diff_again(path) ==
    /\ pc = "fresh"
    /\ \E order \in ModifiedLineOrders(added_lines, removed_lines) :
          LET st == AnalyseLoop([funcs |-> functions_in_file, modified_functions |-> {}],
                                added_lines, removed_lines, order, 1)
          IN  /\ functions_in_file' = st.funcs
              /\ modified_func_dict' = (path :> st.modified_functions) @@ modified_func_dict
    /\ pc' = "again"
    /\ UNCHANGED <<fresh_functions, added_lines, removed_lines, exceptDiff>>

NextRerun ==
    \E path \in Paths :
        \/ analyse_diff(path)
        \/ analyse_diff_fresh(path)
        \/ analyse_diff_again(path)

\* the functions of one file in document order, each with its own name or code
FileIdentities == <<<<"f", "a">>, <<"g", "a">>, <<"f", "b">>>>

InitRerun ==
    /\ pc = "start"
    /\ \E n \in 0..MaxFuncs : \E spans \in [1..n -> Spans] :
          LET funcs == [i \in 1..n |->
                           Function(FileIdentities[i][1], FileIdentities[i][2], None, {}, <<>>,
                                    NoDocstring, <<>>, spans[i][1], spans[i][2])]
          IN  Ordered(funcs) /\ functions_in_file = funcs /\ fresh_functions = funcs
    /\ added_lines \in DiffLists(MaxDiff)
    /\ removed_lines \in DiffLists(MaxDiff)
    /\ modified_func_dict = <<>>
    /\ OnlyDiff

SpecRerun == InitRerun /\ [][NextRerun]_vars

\* C15: analyse_diff on a fresh, identical list with the same diff gives
\* every function the same added_lines and removed_lines multisets as the
\* first run gave; run again on the annotated list it appends every
\* attributed line once more, so each multiplicity is twice that of one run.
C15_RerunDoubles ==
    \A i \in 1..Len(functions_in_file) : \A x \in Lines :
        /\ pc = "fresh" =>
              /\ Count(fresh_functions[i].added_lines, x) = Count(functions_in_file[i].added_lines, x)
              /\ Count(fresh_functions[i].removed_lines, x) = Count(functions_in_file[i].removed_lines, x)
        /\ pc = "again" =>
              /\ Count(functions_in_file[i].added_lines, x) = 2 * Count(fresh_functions[i].added_lines, x)
              /\ Count(functions_in_file[i].removed_lines, x) = 2 * Count(fresh_functions[i].removed_lines, x)

\* C15 witness: after the second run on the annotated list one function holds
\* an added line twice and one holds a removed line twice.
C15_Witness ==
    /\ pc = "again"
    /\ \E i \in 1..Len(functions_in_file) :
          /\ Len(fresh_functions[i].added_lines) = 1
          /\ Len(functions_in_file[i].added_lines) = 2
    /\ \E i \in 1..Len(functions_in_file) :
          /\ Len(fresh_functions[i].removed_lines) = 1
          /\ Len(functions_in_file[i].removed_lines) = 2

(***************************************************************************)
(* PullRequestProcessor.get_modified_functions over the files of a diff    *)
(***************************************************************************)
\* node.child_by_field_name('name').text raises AttributeError: visit reaches
\* a function or class definition that has no name child
RECURSIVE visit_raises(_, _)
visit_raises(T, k) ==
    IF T.label[k].type = "function_definition" THEN T.label[k].name = None
    ELSE \/ T.label[k].type = "class_definition" /\ T.label[k].name = None
         \/ \E c \in {j \in 1..Size(T) : T.parent[j] = k} : visit_raises(T, c)

\* build_context raises (it catches FileNotFoundError only)
_extract_info_raises(T) == \E c \in {j \in 1..Size(T) : T.parent[j] = 0} : visit_raises(T, c)

\* one entry of diff_dict with the file it names
ChangedFile(path, p, l, added, removed) ==
    [path |-> path, parent |-> p, label |-> l, added_lines |-> added, removed_lines |-> removed]

\* get_modified_functions: get_functions_in_file for every path in turn, the
\* analyse_diff coroutines gathered after the loop; an exception of either
\* is logged and raised again
get_modified_functions ==
    /\ pc = "start"
    /\ IF \E i \in 1..Len(changed_files) :
             _extract_info_raises(Tree(changed_files[i].parent, changed_files[i].label))
       THEN /\ pc' = "raised"
            /\ UNCHANGED <<functions_of, modified_func_dict>>
       ELSE /\ \E orders \in [1..Len(changed_files) -> InjSeqs(1..MaxLine, MaxLine)] :
                  /\ \A i \in 1..Len(changed_files) :
                         orders[i] \in ModifiedLineOrders(changed_files[i].added_lines,
                                                          changed_files[i].removed_lines)
                  /\ LET st == [i \in 1..Len(changed_files) |->
                                   AnalyseLoop([funcs |-> _extract_info(Tree(changed_files[i].parent,
                                                                             changed_files[i].label)),
                                                modified_functions |-> {}],
                                               changed_files[i].added_lines,
                                               changed_files[i].removed_lines, orders[i], 1)]
                     IN  /\ functions_of' = [i \in 1..Len(changed_files) |-> st[i].funcs]
                         /\ modified_func_dict' =
                               [path \in {changed_files[i].path : i \in 1..Len(changed_files)} |->
                                   st[CHOOSE i \in 1..Len(changed_files) :
                                          changed_files[i].path = path].modified_functions]
            /\ pc' = "done"
    /\ UNCHANGED <<functions_in_file, fresh_functions, added_lines, removed_lines,
                   changed_files, exceptRun>>

MaxFiles == 2       \* changed files in one diff
MaxFileNodes == 2   \* nodes of the syntax tree of one changed file

ChangedPaths == <<"a.py", "b.py", "c.py">>

\* definitions with and without a name child, and classes
DefinitionLabels ==
    {FunctionDefinition("f", <<>>), FunctionDefinition(None, <<>>), ClassDefinition("C")}

InitRun ==
    /\ pc = "start"
    /\ \E n \in 1..MaxFiles :
          \E sizes \in [1..n -> 0..MaxFileNodes] :
          \E shapes \in [1..n -> UNION {ParentVectors(m) : m \in 0..MaxFileNodes}] :
          \E labels \in [1..n -> UNION {[1..m -> DefinitionLabels] : m \in 0..MaxFileNodes}] :
          \E added \in [1..n -> DiffLists(MaxDiff)] :
          \E removed \in [1..n -> DiffLists(MaxDiff)] :
              /\ \A i \in 1..n : Len(shapes[i]) = sizes[i] /\ Len(labels[i]) = sizes[i]
              /\ changed_files = [i \in 1..n |->
                     ChangedFile(ChangedPaths[i], shapes[i], labels[i], added[i], removed[i])]
    /\ functions_of = <<>>
    /\ functions_in_file = <<>> /\ fresh_functions = <<>>
    /\ added_lines = <<>> /\ removed_lines = <<>>
    /\ modified_func_dict = <<>>
    /\ OnlyRun

NextRun == get_modified_functions

SpecRun == InitRun /\ [][NextRun]_vars

\* some definition node of the file has no name child
HasNamelessDefinition(f) ==
    \E k \in 1..Len(f.parent) :
        f.label[k].type \in {"function_definition", "class_definition"} /\ f.label[k].name = None

\* C16: in get_modified_functions over several changed files a structural
\* failure in one file (a definition node without a name child) aborts the
\* extraction of that file only: the call returns, and every other file is
\* extracted and attributed and has its entry in the returned map.
C16_FailureIsolatedToFile ==
    pc # "start" =>
        \A i \in 1..Len(changed_files) :
            ~HasNamelessDefinition(changed_files[i]) =>
                /\ pc = "done"
                /\ changed_files[i].path \in DOMAIN modified_func_dict
                /\ Len(functions_of) >= i

(***************************************************************************)
(* CodeContextProvider.get_dep_func and get_file_docstring                 *)
(***************************************************************************)
\* the search that, like _extract_info, does not look below a function definition
RECURSIVE visit_dep_outer(_, _, _)
visit_dep_outer(T, k, name) ==
    IF k # 0 /\ T.label[k].type = "function_definition"
    THEN IF T.label[k].name = name
         THEN Function(T.label[k].name, _extract_code(T, k), None, None, None,
                       NoDocstring, None, None, None)
         ELSE NoFunction
    ELSE LET cs == children(T, k)
             found == {i \in 1..Len(cs) : visit_dep_outer(T, cs[i], name) # NoFunction}
         IN  IF found = {} THEN NoFunction ELSE visit_dep_outer(T, cs[Min(found)], name)

\* the closure visit(node) of get_dep_func, k = 0 for tree.root_node; a
\* Function is built from its name and code alone
RECURSIVE visit_dep(_, _, _)
RECURSIVE visit_dep_children(_, _, _, _)
visit_dep_children(T, cs, i, name) ==
    IF i > Len(cs) THEN NoFunction
    ELSE LET result == visit_dep(T, cs[i], name)
         IN  IF result # NoFunction THEN result
             ELSE visit_dep_children(T, cs, i + 1, name)

visit_dep(T, k, name) ==
    IF k # 0 /\ T.label[k].type = "function_definition" /\ T.label[k].name = name
    THEN Function(T.label[k].name, _extract_code(T, k), None, None, None,
                  NoDocstring, None, None, None)
    ELSE visit_dep_children(T, children(T, k), 1, name)

\* CodeContextProvider.get_dep_func: open() is not guarded
get_dep_func ==
    /\ pc = "start"
    /\ IF file_exists
       THEN dep_func' = visit_dep(Tree(parent, label), 0, dep) /\ pc' = "done"
       ELSE dep_func' = dep_func /\ pc' = "raised"
    /\ UNCHANGED <<parent, label, codebase_dict, file_exists, dep, file_docstring, exceptTree>>

\* CodeContextProvider.get_file_docstring: the first top-level expression
\* statement that holds a string with content; open() is not guarded
get_file_docstring ==
    /\ pc = "start"
    /\ IF file_exists
       THEN /\ file_docstring' = ScanBody(Tree(parent, label), children(Tree(parent, label), 0), 1)
            /\ pc' = "done"
       ELSE file_docstring' = file_docstring /\ pc' = "raised"
    /\ UNCHANGED <<parent, label, codebase_dict, file_exists, dep, dep_func, exceptTree>>

\* definitions of f and g, classes, blocks and bare strings
ProviderLabels ==
    {FunctionDefinition(n, <<>>) : n \in FuncNames}
    \cup {ClassDefinition("C"), IfStatement, ExpressionStatement("string")}

\* a source file that exists, or a path no file is at, and a name to look for
InitProvider ==
    /\ pc = "start"
    /\ \/ /\ file_exists = TRUE
          /\ \E n \in 0..MaxNodes : \E p \in ParentVectors(n) : \E l \in [1..n -> ProviderLabels] :
                WellFormed(Tree(p, l)) /\ parent = p /\ label = l
       \/ file_exists = FALSE /\ parent = <<>> /\ label = <<>>
    /\ dep \in {"f", "h"}
    /\ codebase_dict = <<>> /\ dep_func = NoFunction /\ file_docstring = NoDocstring
    /\ OnlyTree

NextProvider == build_context \/ get_file_docstring \/ get_dep_func

SpecProvider == InitProvider /\ [][NextProvider]_vars

NextDepFunc == get_dep_func

SpecDepFunc == InitProvider /\ [][NextDepFunc]_vars

(***************************************************************************)
(* Properties of the provider on absent files and of get_dep_func          *)
(***************************************************************************)
\* C17: when the source file is absent, build_context, get_file_docstring
\* and get_dep_func each end normally with an empty or None result and raise
\* nothing to the caller.
C17_AbsentFileIsEmptyResult ==
    (~file_exists /\ pc # "start") =>
        /\ pc = "done"
        /\ codebase_dict = <<>>
        /\ dep_func = NoFunction
        /\ file_docstring = NoDocstring

\* the function definitions named dep, numbered in document pre-order
DefinitionsOfDep ==
    {k \in 1..Len(parent) : label[k].type = "function_definition" /\ label[k].name = dep}

ConfigKeys == {"nodes", "func", "inputs"}

\* mappings, numbers and strings under the keys the readers look for
ConfigValues ==
    {Value(t, k, "") : t \in {"dict", "int"}, k \in ConfigKeys \cup {""}}
    \cup {Value("str", k, "n1") : k \in ConfigKeys \cup {""}}

\* one document, read as pipelines.yml and as the only node file; or a file
\* that open() or yaml.safe_load() fails on
InitConfig ==
    /\ pc = "start"
    /\ \/ /\ doc_readable = TRUE
          /\ \E n \in 0..MaxDocNodes : \E p \in ParentVectors(n) :
                \E l \in Labellings(p, n, ConfigValues) : doc_parent = p /\ doc_label = l
       \/ doc_readable = FALSE /\ doc_parent = <<>> /\ doc_label = <<>>
    /\ node_files = <<ConfigFile(<<"code_for_review", "conf", "sg", "nodes", "a", "nodes.yml">>,
                                 doc_readable, doc_parent, doc_label)>>
    /\ pipelines_called = {} /\ all_pipelines = <<>> /\ all_nodes = <<>>
    /\ unused_pipelines = {} /\ undefined_pipelines = {}
    /\ nodes_called = {} /\ unused_nodes_name = {} /\ undefined_nodes_name = {}
    /\ OnlyDead

SpecConfig == InitConfig /\ [][NextDeadcode]_vars

\* an entry of the document (a mapping) that is a pipeline mapping whose
\* `nodes` value is a number
BadNodesValue ==
    /\ doc_parent # <<>> /\ doc_label[1].type = "dict"
    /\ \E k \in PipelineMappings : doc_parent[k] = 1 /\ doc_label[NodesValue(k)].type = "int"

\* an entry of the document (a mapping) that is no mapping or lacks `func`
\* or `inputs`
BadNodeEntry ==
    /\ doc_parent # <<>> /\ doc_label[1].type = "dict"
    /\ \E k \in members(TheDoc, 1) :
          \/ doc_label[k].type # "dict"
          \/ \A x \in members(TheDoc, k) : doc_label[x].key # "func"
          \/ \A x \in members(TheDoc, k) : doc_label[x].key # "inputs"

\* C18: get_called_pipelines, get_defined_pipelines and get_defined_nodes
\* raise nothing and return an empty set or map when the document cannot be
\* read or the traversal fails (a `nodes` value that is no collection, a node
\* entry without `func` or `inputs`); what was gathered before the error is
\* not returned.
C18_ErrorsYieldEmpty ==
    /\ pc \in {"start", "pipelines", "done"}
    /\ (pc # "start" /\ ~doc_readable) => pipelines_called = {} /\ all_pipelines = <<>>
    /\ (pc # "start" /\ BadNodesValue) => all_pipelines = <<>>
    /\ (pc = "done" /\ (~doc_readable \/ BadNodeEntry)) => all_nodes = <<>>

\* C18 witness: {func: {nodes: n1}, nodes: {nodes: 1}} read by all three:
\* the pipeline gathered first is dropped when set(1) raises, and the first
\* node entry has neither func nor inputs.
C18_Witness ==
    /\ pc = "done"
    /\ doc_parent = <<0, 1, 2, 1, 4>>
    /\ doc_label = <<Value("dict", "", ""), Value("dict", "func", ""), Value("str", "nodes", "n1"),
                     Value("dict", "nodes", ""), Value("int", "nodes", "")>>
    /\ all_pipelines = <<>> /\ all_nodes = <<>> /\ pipelines_called = {}

(***************************************************************************)
(* UnitTestReviewer._get_dep_filepath                                      *)
(* A path is the sequence of its segments, ".py" a token of its own when   *)
(* the code appends it; the empty string is the empty sequence.            *)
(***************************************************************************)
\* the import statement: whether it starts with 'from ', whether ' import'
\* is found in it, and the pieces dep_module.split('.') gives
Import(from, import, pieces) == [from |-> from, import |-> import, pieces |-> pieces]

\* '.py' in token
HasDotPy(token) == token \in {".py", "lib.py3"}

\* if '.py' not in dep_filepath: dep_filepath += '.py'
AppendPy(path) ==
    IF \E k \in 1..Len(path) : HasDotPy(path[k]) THEN path ELSE Append(path, ".py")

\* the last i with local_parts[i] = first: the loop has no break
LastMatch(local_parts, first) ==
    LET found == {j \in 1..Len(local_parts) : local_parts[j] = first}
    IN  CHOOSE j \in found : \A i \in found : i <= j

\* what _get_dep_filepath returns; every exception (dep_module or
\* dep_filepath never bound, module_parts[0] of an empty list) returns ""
dep_filepath_of(statement, local_parts) ==
    IF ~statement.from \/ ~statement.import THEN <<>>
    ELSE LET module_parts == SelectSeq(statement.pieces, LAMBDA part : part # "")
         IN  IF module_parts = <<>> THEN <<>>
             ELSE IF Len(module_parts) = 1
             THEN AppendPy(Tail(local_parts) \o <<module_parts[1]>>)
             ELSE IF \A j \in 1..Len(local_parts) : local_parts[j] # module_parts[1]
             THEN <<>>
             ELSE AppendPy(SubSeq(local_parts, 2, LastMatch(local_parts, module_parts[1]) - 1)
                           \o module_parts)

_get_dep_filepath ==
    /\ pc = "start"
    /\ dep_filepath' = dep_filepath_of(imp, local_dir_name)
    /\ pc' = "done"
    /\ UNCHANGED <<imp, local_dir_name, exceptPath>>

MaxSegments == 3   \* segments of a module path, and of a directory below the working copy

ModulePieces == {"", "pkg", "m"}
DirectoryNames == {"src", "pkg", "lib.py3"}

\* local_dir_name = local_folder/dir_name, relative to the working directory
InitPath ==
    /\ pc = "start"
    /\ \E from \in BOOLEAN : \E import \in BOOLEAN :
          \E pieces \in UNION {[1..n -> ModulePieces] : n \in 1..MaxSegments} :
              /\ ~from => ~import /\ Len(pieces) = 1
              /\ imp = Import(from, import, pieces)
    /\ \E dirs \in UNION {[1..n -> DirectoryNames] : n \in 0..MaxSegments} :
          local_dir_name = <<"code_for_review">> \o dirs
    /\ dep_filepath = <<>>
    /\ OnlyPath

NextPath == _get_dep_filepath

SpecPath == InitPath /\ [][NextPath]_vars

(***************************************************************************)
(* Properties of _get_dep_filepath                                         *)
(***************************************************************************)
\* the segments of the module the statement imports from
ModuleSegments == SelectSeq(imp.pieces, LAMBDA part : part # "")

\* the statement names a module to import from
Derivable == imp.from /\ imp.import /\ ModuleSegments # <<>>

\* the path without the extension token
Stem(path) == IF path # <<>> /\ path[Len(path)] = ".py" THEN SubSeq(path, 1, Len(path) - 1) ELSE path

\* C19: for `from M import ...`, a single-segment M gives the sibling file M
\* of the local directory without the working-copy root; a multi-segment M
\* whose first segment is a directory of the local path gives the segments of
\* M below the part of the path before that directory; every non-empty
\* result ends with .py, and a statement without a module path gives the
\* empty string.
C19_DepFilepath ==
    pc = "done" =>
        /\ dep_filepath # <<>> => dep_filepath[Len(dep_filepath)] = ".py"
        /\ ~Derivable => dep_filepath = <<>>
        /\ (Derivable /\ Len(ModuleSegments) = 1) =>
               Stem(dep_filepath) = Tail(local_dir_name) \o ModuleSegments
        /\ (Derivable /\ Len(ModuleSegments) > 1
              /\ \E j \in 1..Len(local_dir_name) : local_dir_name[j] = ModuleSegments[1]) =>
               \E j \in 1..Len(local_dir_name) :
                   /\ local_dir_name[j] = ModuleSegments[1]
                   /\ Stem(dep_filepath) = SubSeq(local_dir_name, 2, j - 1) \o ModuleSegments

(***************************************************************************)
(* Function.__eq__ and Function.__hash__                                   *)
(* A Python value is held with its type; a comparison gives "True",        *)
(* "False" or, where __eq__ falls off its end, None.                       *)
(***************************************************************************)
Value_(type, value) == [type |-> type, value |-> value]

\* __eq__ that compares a Function by its name only
__eq__by_name(self, o) ==
    IF o.type = "Function"
    THEN IF self.func_name = o.value.func_name THEN "True" ELSE "False"
    ELSE IF o.type = "str"
    THEN IF o.value = self.func_name THEN "True" ELSE "False"
    ELSE None

\* Function.__eq__
__eq__(self, o) ==
    IF o.type = "Function"
    THEN IF FunctionEq(self, o.value) THEN "True" ELSE "False"
    ELSE IF o.type = "str"
    THEN IF o.value = self.func_name THEN "True" ELSE "False"
    ELSE None

\* hash(o): a Function hashes as its name does, a string as itself
hash(o) ==
    IF o.type = "Function" THEN Value_("str", FunctionHash(o.value)) ELSE o

\* o in {self}: the same hash, and the same object or o == self; a string
\* and an int defer the comparison to Function.__eq__, as does a Function
set_contains(self, o) ==
    /\ hash(o) = hash(Value_("Function", self))
    /\ \/ (o.type = "Function" /\ o.value = self)
       \/ (o.type = "Function" /\ __eq__(o.value, Value_("Function", self)) = "True")
       \/ (o.type # "Function" /\ __eq__(self, o) = "True")

compare ==
    /\ pc = "start"
    /\ eq_result' = __eq__(self_func, compared)
    /\ contained' = set_contains(self_func, compared)
    /\ pc' = "done"
    /\ UNCHANGED <<self_func, compared, exceptEq>>

ComparedNames == {"f", "g", "h"}
ComparedCodes == {"a", "b", "c"}

ComparedFunctions ==
    {Function(n, c, None, <<>>, <<>>, None, <<>>, 1, 1) : n \in ComparedNames, c \in ComparedCodes}

InitCompare ==
    /\ pc = "start"
    /\ self_func \in ComparedFunctions
    /\ compared \in {Value_("Function", f) : f \in ComparedFunctions}
                 \cup {Value_("str", s) : s \in ComparedNames \cup {"a"}}
                 \cup {Value_("int", 0)}
    /\ eq_result = None
    /\ contained = FALSE
    /\ OnlyEq

NextCompare == compare

SpecCompare == InitCompare /\ [][NextCompare]_vars

\* C21: a Function equals another Function exactly when name and code are
\* equal, and a string exactly when the string is its name; equal Functions
\* have the same hash, which depends on the name only; membership of a
\* Function in a set of Functions agrees with that equality.
C21_EqualityAndHash ==
    pc = "done" =>
        /\ compared.type = "Function" =>
              /\ eq_result = "True" <=>
                    (self_func.func_name = compared.value.func_name
                     /\ self_func.func_code = compared.value.func_code)
              /\ eq_result = "True" => hash(compared) = hash(Value_("Function", self_func))
              /\ self_func.func_name = compared.value.func_name
                    => hash(compared) = hash(Value_("Function", self_func))
              /\ contained <=> eq_result = "True"
        /\ compared.type = "str" => (eq_result = "True" <=> compared.value = self_func.func_name)

\* two Functions with one name and different codes were compared
C21_Witness ==
    /\ pc = "done" /\ compared.type = "Function"
    /\ self_func.func_name = compared.value.func_name
    /\ self_func.func_code # compared.value.func_code
    /\ eq_result = "False" /\ ~contained

(***************************************************************************)
(* Line spans of the extracted Functions                                   *)
(***************************************************************************)
\* C22: every Function build_context returns has start_line <= end_line and
\* a func_code of exactly end_line - start_line + 1 lines.
C22_SpanMatchesCode ==
    pc = "done" =>
        \A path \in DOMAIN codebase_dict : \A i \in 1..Len(codebase_dict[path]) :
            LET F == codebase_dict[path][i]
            IN  /\ F.start_line <= F.end_line
                /\ Len(F.func_code) = F.end_line - F.start_line + 1

\* a function of one line and a function of several lines were returned
C22_Witness ==
    /\ pc = "done" /\ codebase_path \in DOMAIN codebase_dict
    /\ \E i, j \in 1..Len(codebase_dict[codebase_path]) :
          /\ codebase_dict[codebase_path][i].start_line = codebase_dict[codebase_path][i].end_line
          /\ codebase_dict[codebase_path][j].end_line >= codebase_dict[codebase_path][j].start_line + 2
          /\ Len(codebase_dict[codebase_path][j].func_code) >= 3

(***************************************************************************)
(* CodeContextProvider._extract_code on the lines of a file                *)
(* A line is its leading whitespace (a width) and its text; a blank line   *)
(* has no text, and its width is the whitespace it consists of.            *)
(***************************************************************************)
extract_code ==
    /\ pc = "start"
    /\ snippet' = dedent(extracted_lines(code_lines, node_rows[1], node_rows[2]))
    /\ pc' = "done"
    /\ UNCHANGED <<code_lines, node_rows, exceptSlice>>

MaxIndent == 2   \* widest leading whitespace of a line

SourceLineValues ==
    {[indent |-> n, text |-> ExpressionStatement("identifier")] : n \in 0..MaxIndent}
    \cup {[indent |-> n, text |-> NoText] : n \in 0..MaxIndent}

\* a node starts and ends on a line that holds text
InitSlice ==
    /\ pc = "start"
    /\ \E n \in 1..MaxCodeLines : \E lines \in [1..n -> SourceLineValues] :
          \E first \in 1..n : \E last \in first..n :
              /\ ~IsBlank(lines[first]) /\ ~IsBlank(lines[last])
              /\ code_lines = lines
              /\ node_rows = <<first - 1, last - 1>>
    /\ snippet = <<>>
    /\ OnlySlice

NextSlice == extract_code

SpecSlice == InitSlice /\ [][NextSlice]_vars

\* the source slice of the node, and the leading whitespace common to its
\* lines that hold text
Slice == extracted_lines(code_lines, node_rows[1], node_rows[2])
CommonPrefix == Min({Slice[i].indent : i \in {j \in 1..Len(Slice) : ~IsBlank(Slice[j])}})

\* prefixing a line with the common leading whitespace
Reindent(line) == [line EXCEPT !.indent = @ + CommonPrefix]

\* C23 as stated: prefixing each line of the de-indented code with the common
\* leading whitespace of the slice gives the slice back line for line, blank
\* and whitespace-only lines included.
C23_AsStated ==
    pc = "done" =>
        /\ Len(snippet) = Len(Slice)
        /\ \A i \in 1..Len(Slice) : Reindent(snippet[i]) = Slice[i]

\* C23: prefixing each line of the de-indented code that holds text with the
\* common leading whitespace of the slice gives that line of the slice back;
\* a blank or whitespace-only line of the slice is an empty line of the code.
C23_RoundTrip ==
    pc = "done" =>
        /\ Len(snippet) = Len(Slice)
        /\ \A i \in 1..Len(Slice) :
              IF IsBlank(Slice[i]) THEN snippet[i] = BlankLine
              ELSE Reindent(snippet[i]) = Slice[i]

\* an indented node of three lines or more with a line of whitespace inside
C23_Witness ==
    /\ pc = "done" /\ Len(Slice) >= 3 /\ CommonPrefix > 0
    /\ \E i \in 2..(Len(Slice) - 1) : IsBlank(Slice[i]) /\ snippet[i] = BlankLine
    /\ \E i \in 2..Len(Slice) : Slice[i].indent > CommonPrefix /\ ~IsBlank(Slice[i])

(***************************************************************************)
(* get_modified_functions, one step per gathered analyse_diff task         *)
(* analyse_diff awaits nothing, so a task runs from start to end without   *)
(* yielding; the tasks run one after another, in an order the loop decides.*)
(***************************************************************************)
\* a task that stores its result under the first path of the diff
task_path_of_first(i) == changed_files[1].path

\* the key of self.modified_func_dict[path] = modified_functions in task i
task_path(i) == changed_files[i].path

\* the loop of get_functions_in_file calls that builds diff_tasks; an
\* exception is logged and raised again before anything is gathered
create_diff_tasks ==
    /\ pc = "start"
    /\ IF \E i \in 1..Len(changed_files) :
             _extract_info_raises(Tree(changed_files[i].parent, changed_files[i].label))
       THEN /\ pc' = "raised"
            /\ UNCHANGED <<functions_of, diff_tasks>>
       ELSE /\ functions_of' = [i \in 1..Len(changed_files) |->
                                   _extract_info(Tree(changed_files[i].parent,
                                                      changed_files[i].label))]
            /\ diff_tasks' = 1..Len(changed_files)
            /\ pc' = "gather"
    /\ UNCHANGED <<diffVars, changed_files, exceptGather>>

\* one gathered analyse_diff task runs
run_diff_task(i) ==
    /\ pc = "gather"
    /\ i \in diff_tasks
    /\ \E order \in ModifiedLineOrders(changed_files[i].added_lines,
                                       changed_files[i].removed_lines) :
          LET st == AnalyseLoop([funcs |-> functions_of[i], modified_functions |-> {}],
                                changed_files[i].added_lines,
                                changed_files[i].removed_lines, order, 1)
          IN  /\ functions_of' = [functions_of EXCEPT ![i] = st.funcs]
              /\ modified_func_dict' = (task_path(i) :> st.modified_functions) @@ modified_func_dict
    /\ diff_tasks' = diff_tasks \ {i}
    /\ UNCHANGED <<pc, functions_in_file, fresh_functions, added_lines, removed_lines,
                   changed_files, exceptGather>>

\* await asyncio.gather(*diff_tasks) returns; return self.modified_func_dict
gather_returns ==
    /\ pc = "gather"
    /\ diff_tasks = {}
    /\ pc' = "done"
    /\ UNCHANGED <<diffVars, runVars, diff_tasks, exceptGather>>

\* the files of a diff: top-level definitions, one to a line, and at most one
\* added line
InitGather ==
    /\ pc = "start"
    /\ \E n \in 1..MaxFiles :
          \E labels \in [1..n -> UNION {[1..m -> {FunctionDefinition("f", <<>>),
                                                  FunctionDefinition(None, <<>>)}] :
                                           m \in 0..MaxFileNodes}] :
          \E added \in [1..n -> {<<>>} \cup {<<Line(k, "x")>> : k \in 1..MaxFileNodes}] :
              changed_files = [i \in 1..n |->
                  ChangedFile(ChangedPaths[i], [k \in 1..Len(labels[i]) |-> 0], labels[i],
                              added[i], <<>>)]
    /\ functions_of = <<>>
    /\ IdleDiff
    /\ diff_tasks = {}
    /\ OnlyGather

NextGather ==
    \/ create_diff_tasks
    \/ \E i \in 1..MaxFiles : run_diff_task(i)
    \/ gather_returns

SpecGather == InitGather /\ [][NextGather]_vars

\* the index of the file of a path
FileOf(path) == CHOOSE i \in 1..Len(changed_files) : changed_files[i].path = path

\* the functions of file i whose span holds a changed line of the diff of file i
Touched(i) ==
    {j \in 1..Len(functions_of[i]) :
        \E k \in 1..Len(changed_files[i].added_lines) :
            /\ functions_of[i][j].start_line <= changed_files[i].added_lines[k].line_num
            /\ changed_files[i].added_lines[k].line_num <= functions_of[i][j].end_line}

\* C24: in whatever order the gathered analyse_diff tasks run, every entry of
\* the result map belongs to a path of the diff whose task has run and holds
\* only functions of that path's file, no step changes an entry that exists
\* or adds more than one, and the map ends with one entry per path.
C24_SingleWriterPerKey ==
    /\ [](pc \in {"gather", "done"} =>
            /\ DOMAIN modified_func_dict =
                  {changed_files[i].path : i \in (1..Len(changed_files)) \ diff_tasks}
            /\ \A path \in DOMAIN modified_func_dict :
                  modified_func_dict[path] \subseteq Touched(FileOf(path))
            /\ pc = "done" => diff_tasks = {})
    /\ [][/\ \A path \in DOMAIN modified_func_dict :
                /\ path \in DOMAIN modified_func_dict'
                /\ modified_func_dict'[path] = modified_func_dict[path]
          /\ Cardinality(DOMAIN modified_func_dict') <= Cardinality(DOMAIN modified_func_dict) + 1]_vars

\* two tasks have run, the second listed first, each with a function to record
C24_Witness ==
    /\ pc = "done" /\ Len(changed_files) >= 2
    /\ \A i \in 1..Len(changed_files) : modified_func_dict[changed_files[i].path] # {}
    /\ modified_func_dict[changed_files[1].path] # modified_func_dict[changed_files[2].path]

(***************************************************************************)
(* UnitTestReviewer.review_tested_functions on one test file               *)
(* The Function objects of the test file are held in a list; a test case   *)
(* is the index of its object, so that two lists of test_cases_dict can    *)
(* hold the same object.                                                   *)
(***************************************************************************)
\* dependency in func.func_name, for the names used here
Substring(dependency, func_name) ==
    \/ dependency = "f" /\ func_name \in {"test_f", "test_f_g", "test_g_f"}
    \/ dependency = "g" /\ func_name \in {"test_g", "test_f_g", "test_g_f"}

\* get_test_cases: tested_func_dict[dependency], the test cases that call
\* `dependency` and carry it in their name, in file order
test_cases_of(objects, dependency) ==
    SelectSeq([i \in 1..Len(objects) |-> i],
              LAMBDA i : /\ dependency \in objects[i].dependencies
                         /\ Substring(dependency, objects[i].func_name))

\* for tested_func in test_cases_list[1:]: merged_func.mergeFunctions(tested_func)
\* merged_func is the object test_cases_list[0] itself
RECURSIVE merge_loop(_, _, _, _)
merge_loop(objects, unit, test_cases_list, i) ==
    IF i > Len(test_cases_list) THEN objects
    ELSE merge_loop([objects EXCEPT ![unit] = mergeFunctions(@, objects[test_cases_list[i]])],
                    unit, test_cases_list, i + 1)

\* for modified_func in modified_func_list: ...; st = [objects, tasks], a
\* task holding the modified function and the object it will review
RECURSIVE modified_loop(_, _, _, _)
modified_loop(st, test_cases_dict, modified, m) ==
    IF m > Len(modified) THEN st
    ELSE LET test_cases_list == test_cases_dict[modified[m]]
         IN  modified_loop(
                 IF test_cases_list = <<>> THEN st
                 ELSE [objects |-> merge_loop(st.objects, test_cases_list[1], test_cases_list, 2),
                       tasks |-> Append(st.tasks, [modified_func |-> modified[m],
                                                   merged_func |-> test_cases_list[1]])],
                 test_cases_dict, modified, m + 1)

\* review_tested_functions: the loop, then the gathered review tasks, each
\* reading the code of its merged_func when it runs
review_tested_functions ==
    /\ pc = "start"
    /\ LET test_cases_dict == [name \in {"f", "g"} |-> test_cases_of(test_functions, name)]
           st == modified_loop([objects |-> test_functions, tasks |-> <<>>],
                               test_cases_dict, modified_func_list, 1)
       IN  /\ test_functions' = st.objects
           /\ reviewed' = [t \in 1..Len(st.tasks) |->
                              [modified_func |-> st.tasks[t].modified_func,
                               test_code |-> st.objects[st.tasks[t].merged_func].func_code]]
    /\ pc' = "done"
    /\ UNCHANGED <<modified_func_list, exceptReview>>

MaxTestCases == 3   \* test functions in one test file

TestNames == {"test_f", "test_g", "test_f_g", "test_g_f"}

\* a test function of one line, with the names it calls
TestCase(name, deps) ==
    Function(name, <<[indent |-> 0, text |-> FunctionDefinition(name, <<>>)]>>, None, deps,
             <<>>, NoDocstring, <<>>, 1, 1)

InitReview ==
    /\ pc = "start"
    /\ \E names \in InjSeqs(TestNames, MaxTestCases) :
          \E deps \in [1..Len(names) -> SUBSET {"f", "g"}] :
              test_functions = [i \in 1..Len(names) |-> TestCase(names[i], deps[i])]
    /\ modified_func_list \in InjSeqs({"f", "g"}, 2)
    /\ reviewed = <<>>
    /\ OnlyReview

NextReview == review_tested_functions

SpecReview == InitReview /\ [][NextReview]_vars

\* the names of the test cases whose code a reviewed unit holds, in order
DefinedIn(test_code) ==
    LET defs == SelectSeq(test_code, LAMBDA line : ~IsBlank(line))
    IN  [i \in 1..Len(defs) |-> defs[i].text.name]

\* the names of the test cases grouped under a modified function
GroupedUnder(name) ==
    {test_functions[i].func_name :
        i \in {j \in 1..Len(test_functions) :
                  name \in test_functions[j].dependencies
                  /\ Substring(name, test_functions[j].func_name)}}

\* C25: the unit reviewed for a modified function M holds the code of
\* exactly the test cases grouped under M's name, each once, when the review
\* task runs; the merges made for another modified function add nothing to it.
C25_UnitHoldsOwnTestCases ==
    pc = "done" =>
        \A t \in 1..Len(reviewed) :
            LET names == DefinedIn(reviewed[t].test_code)
            IN  /\ {names[i] : i \in 1..Len(names)} = GroupedUnder(reviewed[t].modified_func)
                /\ \A i, j \in 1..Len(names) : i # j => names[i] # names[j]

(***************************************************************************)
(* Spans of the Functions of one file                                      *)
(***************************************************************************)
\* node k lies below a function definition
RECURSIVE InsideDefinition(_, _)
InsideDefinition(T, k) ==
    /\ T.parent[k] # 0
    /\ \/ T.label[T.parent[k]].type = "function_definition"
       \/ InsideDefinition(T, T.parent[k])

\* C26: _extract_info emits no Function for a node below a function
\* definition, so no two Functions of a file have overlapping line spans and
\* every line lies in the span of at most one Function of the list.
C26_SpansDisjoint ==
    (pc = "done" /\ codebase_path \in DOMAIN codebase_dict) =>
        LET funcs == codebase_dict[codebase_path]
        IN  /\ \A i \in 1..Len(funcs) : ~InsideDefinition(Tree(parent, label), funcs[i].start_line)
            /\ \A i, j \in 1..Len(funcs) :
                  i # j => \/ funcs[i].end_line < funcs[j].start_line
                           \/ funcs[j].end_line < funcs[i].start_line
            /\ \A line \in 1..Len(parent) :
                  Cardinality({i \in 1..Len(funcs) :
                                  funcs[i].start_line <= line /\ line <= funcs[i].end_line}) <= 1

\* a definition with a definition nested in it, then a second definition
C26_Witness ==
    /\ pc = "done" /\ codebase_path \in DOMAIN codebase_dict
    /\ Len(codebase_dict[codebase_path]) = 2
    /\ codebase_dict[codebase_path][1].end_line > codebase_dict[codebase_path][1].start_line
    /\ \E k \in 1..Len(parent) :
          label[k].type = "function_definition" /\ InsideDefinition(Tree(parent, label), k)

(***************************************************************************)
(* UnitTestReviewer.get_relevant_dep                                       *)
(* An import statement is held with the names its text contains, what      *)
(* becomes of the file it leads to, and the functions that file defines.   *)
(***************************************************************************)
ImportStatement(mentions, file, defines) ==
    [mentions |-> mentions, file |-> file, defines |-> defines]

\* _get_dep_filepath gives "", download_file_content raises, open() in
\* get_dep_func raises, or the file is downloaded and parsed
FileOutcomes == {"no_path", "download_raises", "open_raises", "parsed"}

\* the two loops; st = [raised, dep_func_set]. A dependency found is held as
\* the pair of its name and the import whose file defines it.
RECURSIVE dep_loop(_, _, _, _, _)
dep_loop(st, deps, imps, d, i) ==
    IF st.raised \/ d > Len(deps) THEN st
    ELSE IF i > Len(imps) THEN dep_loop(st, deps, imps, d + 1, 1)
    ELSE IF deps[d] \notin imps[i].mentions THEN dep_loop(st, deps, imps, d, i + 1)
    ELSE IF imps[i].file = "no_path" THEN dep_loop(st, deps, imps, d, i + 1)
    ELSE IF imps[i].file \in {"download_raises", "open_raises"}
    THEN [st EXCEPT !.raised = TRUE]
    ELSE dep_loop(IF deps[d] \in imps[i].defines
                  THEN [st EXCEPT !.dep_func_set = @ \cup {<<deps[d], i>>}]
                  ELSE st,
                  deps, imps, d, i + 1)

\* get_relevant_dep: any exception inside the loops is logged and [] returned
get_relevant_dep ==
    /\ pc = "start"
    /\ LET st == dep_loop([raised |-> FALSE, dep_func_set |-> {}],
                          dependencies_names, test_imports, 1, 1)
       IN  relevant_dep' = IF st.raised THEN {} ELSE st.dep_func_set
    /\ pc' = "done"
    /\ UNCHANGED <<dependencies_names, test_imports, exceptDep>>

MaxImports == 2   \* import statements of the test file

InitDep ==
    /\ pc = "start"
    /\ dependencies_names \in InjSeqs({"f", "g"}, 2)
    /\ \E n \in 0..MaxImports :
          \E mentions \in [1..n -> SUBSET {"f", "g"}] :
          \E file \in [1..n -> FileOutcomes] :
          \E defines \in [1..n -> SUBSET {"f", "g"}] :
              /\ \A i \in 1..n : file[i] # "parsed" => defines[i] = {}
              /\ test_imports = [i \in 1..n |-> ImportStatement(mentions[i], file[i], defines[i])]
    /\ relevant_dep = {}
    /\ OnlyDep

NextDep == get_relevant_dep

SpecDep == InitDep /\ [][NextDep]_vars

\* C27: a dependency whose file cannot be downloaded or opened, or whose
\* import gives no path, is the only one lost: every dependency that an
\* import mentions and whose file was parsed and defines it is returned.
C27_FailureIsolatedToDependency ==
    pc = "done" =>
        \A d \in 1..Len(dependencies_names) : \A i \in 1..Len(test_imports) :
            (/\ dependencies_names[d] \in test_imports[i].mentions
             /\ test_imports[i].file = "parsed"
             /\ dependencies_names[d] \in test_imports[i].defines)
                => <<dependencies_names[d], i>> \in relevant_dep

(***************************************************************************)
(* webhook_receiver: trigger_review and the process_review_queue workers   *)
(***************************************************************************)
MAX_QUEUE_SIZE == 3    \* startup_event: the number of worker tasks
MaxRequests == 3       \* requests posted in one run

EventTypes == {"pr:opened", "pr:from_ref_updated", "repo:refs_changed"}

\* the body of a request: with the pullRequest fields the worker reads, or without
Payloads == {"pull_request", "no_pull_request"}

NoRequest == [none |-> TRUE]

\* trigger_review: a pull-request event is put on the queue (202), anything
\* else is answered without queueing (200)
trigger_review(event_type, json) ==
    /\ accepted < MaxRequests
    /\ event_type \in {"pr:opened", "pr:from_ref_updated"}
    /\ review_queue' = Append(review_queue,
                              [id |-> accepted + 1, event_type |-> event_type, json |-> json])
    /\ accepted' = accepted + 1
    /\ UNCHANGED <<pc, workers, marked_done, exceptQueue>>

\* data = await review_queue.get(), then the reads of data["json"]["pullRequest"]...
\* before the try block: a missing key raises out of the coroutine and the
\* task ends
take_request(w) ==
    /\ workers[w].at = "get"
    /\ review_queue # <<>>
    /\ workers' = [workers EXCEPT ![w] =
                      IF Head(review_queue).json = "no_pull_request"
                      THEN [at |-> "ended", data |-> Head(review_queue)]
                      ELSE [at |-> "review", data |-> Head(review_queue)]]
    /\ review_queue' = Tail(review_queue)
    /\ UNCHANGED <<pc, accepted, marked_done, exceptQueue>>

\* build_code_review_graph returns or raises an Exception, which is logged;
\* then review_queue.task_done() and the next turn of the loop
finish_review(w) ==
    /\ workers[w].at = "review"
    /\ marked_done' = marked_done \cup {workers[w].data.id}
    /\ workers' = [workers EXCEPT ![w] = [at |-> "get", data |-> NoRequest]]
    /\ UNCHANGED <<pc, review_queue, accepted, exceptQueue>>

\* after startup_event: three workers waiting on an empty queue
InitQueue ==
    /\ pc = "start"
    /\ review_queue = <<>>
    /\ workers = [w \in 1..MAX_QUEUE_SIZE |-> [at |-> "get", data |-> NoRequest]]
    /\ accepted = 0
    /\ marked_done = {}
    /\ OnlyQueue

NextQueue ==
    \/ \E event_type \in EventTypes : \E json \in Payloads : trigger_review(event_type, json)
    \/ \E w \in 1..MAX_QUEUE_SIZE : take_request(w)
    \/ \E w \in 1..MAX_QUEUE_SIZE : finish_review(w)

SpecQueue == InitQueue /\ [][NextQueue]_vars

\* C28: no request ends a worker: all three workers stay alive, and every
\* request put on the queue is waiting in it, held by a live worker that
\* will mark it, or marked task_done.
C28_WorkersStayAlive ==
    /\ \A w \in 1..MAX_QUEUE_SIZE : workers[w].at # "ended"
    /\ \A id \in 1..accepted :
          \/ \E k \in 1..Len(review_queue) : review_queue[k].id = id
          \/ \E w \in 1..MAX_QUEUE_SIZE : workers[w].at = "review" /\ workers[w].data.id = id
          \/ id \in marked_done

(***************************************************************************)
(* build_code_review_graph on the three workers: the working directory     *)
(***************************************************************************)
Projects == {"P", "Q"}
Repos == {"r"}
PrIds == {"1", "2"}

\* f'code_for_review_{repo}_{pr_id}': the project is not part of the name
local_folder(project, repo, pr_id) == <<"code_for_review", repo, pr_id>>

\* a directory is absent, or holds the files one run wrote last
Absent == {}

\* a worker takes a request and starts build_code_review_graph
start_review(w, project, repo, pr_id) ==
    /\ runs[w].at = "idle"
    /\ runs' = [runs EXCEPT ![w] = [at |-> "started", project |-> project,
                                    repo |-> repo, pr_id |-> pr_id]]
    /\ UNCHANGED <<pc, directories, exceptDir>>

\* download_file_content: os.makedirs(..., exist_ok=True) and the files
\* written, over whatever the directory holds
download_file_content(w) ==
    /\ runs[w].at = "started"
    /\ directories' = [directories EXCEPT
                          ![local_folder(runs[w].project, runs[w].repo, runs[w].pr_id)] = {w}]
    /\ runs' = [runs EXCEPT ![w].at = "downloaded"]
    /\ UNCHANGED <<pc, exceptDir>>

\* the reviewers read the downloaded files; a missing file is an exception
\* that ends the graph, and the finally block runs either way
read_files(w) ==
    /\ runs[w].at = "downloaded"
    /\ runs' = [runs EXCEPT ![w].at = "finally"]
    /\ UNCHANGED <<pc, directories, exceptDir>>

\* finally: clean_up(local_path), shutil.rmtree with FileNotFoundError passed over
clean_up(w) ==
    /\ runs[w].at = "finally"
    /\ directories' = [directories EXCEPT
                          ![local_folder(runs[w].project, runs[w].repo, runs[w].pr_id)] = Absent]
    /\ runs' = [runs EXCEPT ![w] = [at |-> "idle", project |-> None, repo |-> None,
                                    pr_id |-> None]]
    /\ UNCHANGED <<pc, exceptDir>>

InitDir ==
    /\ pc = "start"
    /\ runs = [w \in 1..MAX_QUEUE_SIZE |->
                  [at |-> "idle", project |-> None, repo |-> None, pr_id |-> None]]
    /\ directories = [name \in {local_folder(p, r, i) : p \in Projects, r \in Repos, i \in PrIds}
                         |-> Absent]
    /\ OnlyDir

NextDir ==
    \/ \E w \in 1..MAX_QUEUE_SIZE : \E p \in Projects : \E r \in Repos : \E i \in PrIds :
          start_review(w, p, r, i)
    \/ \E w \in 1..MAX_QUEUE_SIZE : download_file_content(w)
    \/ \E w \in 1..MAX_QUEUE_SIZE : read_files(w)
    \/ \E w \in 1..MAX_QUEUE_SIZE : clean_up(w)

SpecDir == InitDir /\ [][NextDir]_vars

\* C29: while a run has downloaded its files and still reads them, its
\* working directory holds them: no other run has written to the directory
\* or removed it.
C29_DirectoryOfOneRun ==
    \A w \in 1..MAX_QUEUE_SIZE :
        runs[w].at = "downloaded" =>
            directories[local_folder(runs[w].project, runs[w].repo, runs[w].pr_id)] = {w}

(***************************************************************************)
(* Reviewer.join_reviews                                                   *)
(* A string is held as its length and the review strings it contains, in   *)
(* order; a review string is named by its list and its place in the list.  *)
(***************************************************************************)
word_limit == 30000
divider == 40          \* "-" * 40

Text(len, reviews) == [len |-> len, reviews |-> reviews]

\* a + b
Concat(a, b) == Text(a.len + b.len, a.reviews \o b.reviews)

\* a string of separators and dashes: it holds no review
Filler(len) == Text(len, <<>>)

\* for content in content_list[1:]; st = [review_content, current_review_list]
RECURSIVE content_loop(_, _, _, _)
content_loop(st, header, contents, c) ==
    IF c > Len(contents) THEN st
    ELSE LET flushed ==
                 IF st.review_content.len + contents[c].len > word_limit
                 THEN [review_content |-> header,
                       current_review_list |->
                           Append(st.current_review_list,
                                  Concat(st.review_content, Filler(1 + divider)))]
                 ELSE st
         IN  content_loop([flushed EXCEPT !.review_content =
                              Concat(Concat(@, contents[c]), Filler(2))],
                          header, contents, c + 1)

\* for content_list in review_list
RECURSIVE list_loop(_, _, _)
list_loop(st, lists, n) ==
    IF n > Len(lists) THEN st
    ELSE LET header == lists[n].header
             contents == lists[n].contents
         IN  list_loop(
                 IF contents = <<>> THEN st
                 ELSE LET after == content_loop([st EXCEPT !.review_content = Concat(@, header)],
                                                header, contents, 1)
                      IN  [after EXCEPT !.review_content = Concat(@, Filler(1 + divider + 1))],
                 lists, n + 1)

\* Reviewer.join_reviews
join_reviews ==
    /\ pc = "start"
    /\ LET st == list_loop([review_content |-> Text(0, <<>>), current_review_list |-> <<>>],
                           review_list, 1)
       IN  current_review_list' =
               IF st.review_content.len # 0 /\ st.review_content.len <= word_limit
               THEN Append(st.current_review_list, st.review_content)
               ELSE st.current_review_list
    /\ pc' = "done"
    /\ UNCHANGED <<review_list, exceptJoin>>

MaxLists == 2      \* lists passed to join_reviews
MaxReviews == 2    \* review strings of one list, after its header

HeaderLength == 20

\* a short review, one that fills a chunk to its last characters, one longer
\* than the limit
ReviewLengths == {100, 29950, 30001}

InitJoin ==
    /\ pc = "start"
    /\ \E n \in 1..MaxLists :
          \E lens \in [1..n -> UNION {[1..m -> ReviewLengths] : m \in 0..MaxReviews}] :
              review_list = [i \in 1..n |->
                  [header |-> Text(HeaderLength, <<>>),
                   contents |-> [c \in 1..Len(lens[i]) |-> Text(lens[i][c], <<<<i, c>>>>)]]]
    /\ current_review_list = <<>>
    /\ OnlyJoin

NextJoin == join_reviews

SpecJoin == InitJoin /\ [][NextJoin]_vars

\* how often a review string appears in the returned chunks
Occurrences(review) ==
    Cardinality({<<k, j>> \in (1..Len(current_review_list)) \X (1..(MaxLists * MaxReviews)) :
                    /\ j <= Len(current_review_list[k].reviews)
                    /\ current_review_list[k].reviews[j] = review})

\* C30: every review string passed to join_reviews after a header appears in
\* exactly one returned chunk, whatever the lengths.
C30_NoContentLost ==
    pc = "done" =>
        \A i \in 1..Len(review_list) : \A c \in 1..Len(review_list[i].contents) :
            Occurrences(<<i, c>>) = 1

====
